---------------------------- MODULE Spec2Model ----------------------------
(***************************************************************************)
(* Model of the record normalization pipeline of src/main.py (the FBI      *)
(* fugitives scraper): the field parsers (parse_date, parse_height_to_cm,  *)
(* parse_weight_to_kg, ...) and clean_dataframe with its stages.           *)
(*                                                                         *)
(* Text is a sequence of one-character strings.  Python values are tagged  *)
(* records: None/NaN, str, float (in hundredths), int, bool, date and a    *)
(* non-scalar list value.  Regular expressions are syntax trees evaluated  *)
(* by a backtracking matcher that yields matches in Python's priority      *)
(* order (leftmost start, alternatives left to right, greedy repeats).     *)
(***************************************************************************)
EXTENDS Integers, Sequences, FiniteSets, TLC

VARIABLES
    text,            \* the argument a scalar parser is called with (a Python value)
    parsed,          \* what the parser returned
    pc,              \* where the run stands: "call"/"return" of a parser, or the
                     \* statement of main / clean_dataframe that runs next
    collected_data,  \* main: the profiles the scraper collected
    df_raw,          \* the record set clean_dataframe is called with
    out,             \* clean_dataframe's working copy
    out_is_df,       \* whether out is the very frame object of the caller
    cleaned_df,      \* what clean_dataframe returned
    first_df         \* the result of the first call, once its result is cleaned again

vars == <<text, parsed, pc, collected_data, df_raw, out, out_is_df, cleaned_df, first_df>>
pipeline_vars == <<collected_data, df_raw, out, out_is_df, cleaned_df, first_df>>

-----------------------------------------------------------------------------
(* Python values *)

None == [k |-> "none"]
PyStr(cs) == [k |-> "str", v |-> cs]
PyFloat(h) == [k |-> "float", v |-> h]       \* h is the value in hundredths
PyInt(n) == [k |-> "int", v |-> n]
PyBool(b) == [k |-> "bool", v |-> b]
PyDate(y, m, d) == [k |-> "date", y |-> y, m |-> m, d |-> d]
PyLabel(v) == [k |-> "label", v |-> v]      \* a str constant of the program, kept whole
ListValue == [k |-> "list"]                \* a list of two or more items

NotCalled == [k |-> "notcalled"]
Raised == [k |-> "raised"]

-----------------------------------------------------------------------------
(* Characters *)

Digits == {"0", "1", "2", "3", "4", "5", "6", "7", "8", "9"}
LowerLetters == <<"a", "b", "c", "d", "e", "f", "g", "h", "i", "j", "k", "l", "m",
                  "n", "o", "p", "q", "r", "s", "t", "u", "v", "w", "x", "y", "z">>
UpperLetters == <<"A", "B", "C", "D", "E", "F", "G", "H", "I", "J", "K", "L", "M",
                  "N", "O", "P", "Q", "R", "S", "T", "U", "V", "W", "X", "Y", "Z">>
Letters == {LowerLetters[i] : i \in DOMAIN LowerLetters}
              \cup {UpperLetters[i] : i \in DOMAIN UpperLetters}
WordChars == Letters \cup Digits \cup {"_"}
SpaceChars == {" ", "\n", "\t"}

DigitValue(c) ==
    CASE c = "0" -> 0 [] c = "1" -> 1 [] c = "2" -> 2 [] c = "3" -> 3
      [] c = "4" -> 4 [] c = "5" -> 5 [] c = "6" -> 6 [] c = "7" -> 7
      [] c = "8" -> 8 [] c = "9" -> 9

DigitChar(n) ==
    CASE n = 0 -> "0" [] n = 1 -> "1" [] n = 2 -> "2" [] n = 3 -> "3"
      [] n = 4 -> "4" [] n = 5 -> "5" [] n = 6 -> "6" [] n = 7 -> "7"
      [] n = 8 -> "8" [] n = 9 -> "9"

LowerChar(c) ==
    IF \E i \in DOMAIN UpperLetters : UpperLetters[i] = c
    THEN LowerLetters[CHOOSE i \in DOMAIN UpperLetters : UpperLetters[i] = c]
    ELSE c

\* str.lower()
Lower(s) == [i \in DOMAIN s |-> LowerChar(s[i])]

RECURSIVE LStrip(_)
LStrip(s) == IF s # <<>> /\ Head(s) \in SpaceChars THEN LStrip(Tail(s)) ELSE s

RECURSIVE RStrip(_)
RStrip(s) ==
    IF s # <<>> /\ s[Len(s)] \in SpaceChars THEN RStrip(SubSeq(s, 1, Len(s) - 1)) ELSE s

\* str.strip()
Strip(s) == RStrip(LStrip(s))

\* int() of a string of decimal digits
RECURSIVE ToInt(_)
ToInt(s) == IF s = <<>> THEN 0 ELSE 10 * ToInt(SubSeq(s, 1, Len(s) - 1)) + DigitValue(s[Len(s)])

\* the tokens of a text laid end to end
RECURSIVE Flatten(_)
Flatten(toks) == IF toks = <<>> THEN <<>> ELSE Head(toks) \o Flatten(Tail(toks))

-----------------------------------------------------------------------------
(* Regular expressions (Python's re): syntax trees *)

Lit(c) == [t |-> "cls", cs |-> {c}]
Cls(S) == [t |-> "cls", cs |-> S]
Cat(rs) == [t |-> "cat", rs |-> rs]
Alt(rs) == [t |-> "alt", rs |-> rs]
Rep(r, lo, hi) == [t |-> "rep", r |-> r, lo |-> lo, hi |-> hi]   \* greedy r{lo,hi}
Grp(n, r) == [t |-> "grp", n |-> n, r |-> r]                     \* capturing group n
WordBoundary == [t |-> "wb"]                                     \* \b

Unbounded == 0 - 1
Opt(r) == Rep(r, 0, 1)
Star(r) == Rep(r, 0, Unbounded)
Plus(r) == Rep(r, 1, Unbounded)
Word(cs) == Cat([i \in DOMAIN cs |-> Lit(cs[i])])
D == Cls(Digits)          \* \d
S == Cls(SpaceChars)      \* \s

Groups == 1 .. 4
NoCap == <<"NOCAP">>
NoCaps == [g \in Groups |-> NoCap]

IsWordAt(s, i) == i >= 1 /\ i <= Len(s) /\ s[i] \in WordChars

RECURSIVE M(_, _, _, _), MCat(_, _, _, _, _), MCatEach(_, _, _, _, _),
          MAlt(_, _, _, _, _), MRep(_, _, _, _, _, _), MRepEach(_, _, _, _, _, _, _),
          MGrp(_, _, _, _, _)

\* The matches of r in s that start after position i (0-based offset i), in the
\* order Python's backtracking tries them: each is the end offset and the groups.
M(r, s, i, caps) ==
    CASE r.t = "cls" ->
            IF i < Len(s) /\ s[i + 1] \in r.cs
            THEN <<[pos |-> i + 1, caps |-> caps]>> ELSE <<>>
      [] r.t = "wb" ->
            IF IsWordAt(s, i) # IsWordAt(s, i + 1)
            THEN <<[pos |-> i, caps |-> caps]>> ELSE <<>>
      [] r.t = "cat" -> MCat(r.rs, 1, s, i, caps)
      [] r.t = "alt" -> MAlt(r.rs, 1, s, i, caps)
      [] r.t = "rep" -> MRep(r.r, r.lo, r.hi, s, i, caps)
      [] r.t = "grp" -> MGrp(M(r.r, s, i, caps), 1, r.n, s, i)

MCat(rs, k, s, i, caps) ==
    IF k > Len(rs) THEN <<[pos |-> i, caps |-> caps]>>
    ELSE MCatEach(M(rs[k], s, i, caps), 1, rs, k, s)

MCatEach(xs, j, rs, k, s) ==
    IF j > Len(xs) THEN <<>>
    ELSE MCat(rs, k + 1, s, xs[j].pos, xs[j].caps) \o MCatEach(xs, j + 1, rs, k, s)

MAlt(rs, k, s, i, caps) ==
    IF k > Len(rs) THEN <<>>
    ELSE M(rs[k], s, i, caps) \o MAlt(rs, k + 1, s, i, caps)

MRep(r, lo, hi, s, i, caps) ==
    LET more == IF hi = 0 THEN <<>>
                ELSE MRepEach(M(r, s, i, caps), 1, r, lo, hi, s, i)
        stop == IF lo <= 0 THEN <<[pos |-> i, caps |-> caps]>> ELSE <<>>
    IN  more \o stop

MRepEach(xs, j, r, lo, hi, s, i) ==
    IF j > Len(xs) THEN <<>>
    ELSE (IF xs[j].pos > i
          THEN MRep(r, IF lo > 0 THEN lo - 1 ELSE 0,
                    IF hi > 0 THEN hi - 1 ELSE hi, s, xs[j].pos, xs[j].caps)
          ELSE <<>>)
         \o MRepEach(xs, j + 1, r, lo, hi, s, i)

MGrp(xs, j, n, s, i) ==
    IF j > Len(xs) THEN <<>>
    ELSE <<[pos |-> xs[j].pos,
            caps |-> [xs[j].caps EXCEPT ![n] = SubSeq(s, i + 1, xs[j].pos)]]>>
         \o MGrp(xs, j + 1, n, s, i)

NoMatch == [ok |-> FALSE, start |-> 0, end |-> 0, caps |-> NoCaps]

RECURSIVE SearchFrom(_, _, _)
SearchFrom(r, s, i) ==
    IF i > Len(s) THEN NoMatch
    ELSE LET xs == M(r, s, i, NoCaps)
         IN  IF xs # <<>>
             THEN [ok |-> TRUE, start |-> i, end |-> xs[1].pos, caps |-> xs[1].caps]
             ELSE SearchFrom(r, s, i + 1)

\* re.search(r, s)
Search(r, s) == SearchFrom(r, s, 0)

\* re.match(r, s): a match that starts at the beginning of s
Match(r, s) ==
    LET xs == M(r, s, 0, NoCaps)
    IN  IF xs # <<>>
        THEN [ok |-> TRUE, start |-> 0, end |-> xs[1].pos, caps |-> xs[1].caps]
        ELSE NoMatch

\* re.findall(r, s) for a pattern with one group: the group of each successive
\* non-overlapping match
RECURSIVE FindAllFrom(_, _, _)
FindAllFrom(r, s, i) ==
    LET m == SearchFrom(r, s, i)
    IN  IF ~m.ok THEN <<>>
        ELSE <<m.caps[1]>> \o FindAllFrom(r, s, IF m.end > m.start THEN m.end ELSE m.end + 1)

FindAll(r, s) == FindAllFrom(r, s, 0)

-----------------------------------------------------------------------------
(* Numbers *)

\* float() of "ddd" or "ddd.dd", as an exact count of hundredths (the texts of
\* the model carry at most two fractional digits)
Hundredths(cs) ==
    LET dot == IF \E i \in DOMAIN cs : cs[i] = "."
               THEN CHOOSE i \in DOMAIN cs : cs[i] = "." ELSE Len(cs) + 1
        whole == ToInt(SubSeq(cs, 1, dot - 1))
        frac == SubSeq(cs, dot + 1, Len(cs))
    IN  100 * whole + (CASE Len(frac) = 0 -> 0
                         [] Len(frac) = 1 -> 10 * ToInt(frac)
                         [] OTHER -> ToInt(SubSeq(frac, 1, 2)))

\* round(num / den, 1) in hundredths; an exact tie goes to the even tenth, as
\* Python's round does on a value that is exactly representable
Round1(num, den) ==
    LET q == (10 * num) \div den
        r == (10 * num) % den
        up == 2 * r > den \/ (2 * r = den /\ q % 2 = 1)
    IN  10 * (IF up THEN q + 1 ELSE q)

\* pd.isna(x) or not str(x).strip(): the guard every parser starts with.
\* pd.isna of a list is an array, whose truth value raises ValueError.
IsBlank(x) == x.k = "none" \/ (x.k = "str" /\ Strip(x.v) = <<>>)

-----------------------------------------------------------------------------
(* parse_height_to_cm *)

Number23 == Cat(<<Rep(D, 2, 3), Opt(Cat(<<Lit("."), Plus(D)>>))>>)

\* r'(\d{2,3}(?:\.\d+)?)\s*cm\b'
RE_cm == Cat(<<Grp(1, Number23), Star(S), Word(<<"c", "m">>), WordBoundary>>)

\* r'(\d(?:\.\d{1,2})?)\s*m\b'
RE_m ==
    Cat(<<Grp(1, Cat(<<D, Opt(Cat(<<Lit("."), Rep(D, 1, 2)>>))>>)),
          Star(S), Lit("m"), WordBoundary>>)

\* r'(\d{2,3}(?:\.\d+)?)\s*(?:in|inch|inches|")\b'
RE_in ==
    Cat(<<Grp(1, Number23), Star(S),
          Alt(<<Word(<<"i", "n">>), Word(<<"i", "n", "c", "h">>),
                Word(<<"i", "n", "c", "h", "e", "s">>), Lit("\"")>>),
          WordBoundary>>)

\* r'\bft|foot|feet|\'\b'
RE_foot ==
    Alt(<<Cat(<<WordBoundary, Word(<<"f", "t">>)>>), Word(<<"f", "o", "o", "t">>),
          Word(<<"f", "e", "e", "t">>), Cat(<<Lit("'"), WordBoundary>>)>>)

\* r'(?:(\d+)\s*(?:ft|foot|feet|\' ))\s*(\d{1,2})?'
RE_ft_in ==
    Cat(<<Grp(1, Plus(D)), Star(S),
          Alt(<<Word(<<"f", "t">>), Word(<<"f", "o", "o", "t">>),
                Word(<<"f", "e", "e", "t">>), Word(<<"'", " ">>)>>),
          Star(S), Opt(Grp(2, Rep(D, 1, 2)))>>)

\* r'(\d+)\s*\'\s*(\d{1,2})?'
RE_quote_in ==
    Cat(<<Grp(1, Plus(D)), Star(S), Lit("'"), Star(S), Opt(Grp(2, Rep(D, 1, 2)))>>)

\* r'(\d{1,3}(?:\.\d+)?)'
RE_num == Grp(1, Cat(<<Rep(D, 1, 3), Opt(Cat(<<Lit("."), Plus(D)>>))>>))

\* the last rule: a bare number read by its magnitude
BareNumber(s) ==
    LET m_num == Search(RE_num, s)
        val == Hundredths(m_num.caps[1])
    IN  IF ~m_num.ok THEN None
        ELSE IF 5000 <= val /\ val <= 9000 THEN PyFloat(Round1(val * 254, 10000))
        ELSE IF 140 <= val /\ val <= 250 THEN PyFloat(Round1(val * 100, 100))
        ELSE IF 14000 <= val /\ val <= 23000 THEN PyFloat(Round1(val, 100))
        ELSE None

\* the feet counts of the model have at most 3 digits (an int of 309 digits or
\* more makes the product with 2.54 raise OverflowError)
FeetAndInches(s) ==
    LET m1 == Search(RE_ft_in, s)
        m_ft_in == IF m1.ok THEN m1 ELSE Search(RE_quote_in, s)
        ft == ToInt(m_ft_in.caps[1])
        inch == IF m_ft_in.caps[2] # NoCap /\ m_ft_in.caps[2] # <<>>
                THEN ToInt(m_ft_in.caps[2]) ELSE 0
    IN  IF m_ft_in.ok THEN PyFloat(Round1((ft * 12 + inch) * 254, 100))
        ELSE BareNumber(s)

InchesOnly(s) ==
    LET m_in == Search(RE_in, s)
    IN  IF m_in.ok /\ ~Search(RE_foot, s).ok
        THEN PyFloat(Round1(Hundredths(m_in.caps[1]) * 254, 10000))
        ELSE FeetAndInches(s)

Meters(s) ==
    LET m_m == Search(RE_m, s)
        val_m == Hundredths(m_m.caps[1])
    IN  IF m_m.ok /\ 130 <= val_m /\ val_m <= 250
        THEN PyFloat(Round1(val_m * 100, 100))
        ELSE InchesOnly(s)

Centimeters(s) ==
    LET m_cm == Search(RE_cm, s)
    IN  IF m_cm.ok THEN PyFloat(Hundredths(m_cm.caps[1])) ELSE Meters(s)

parse_height_to_cm(height) ==
    IF height.k = "list" THEN Raised
    ELSE IF IsBlank(height) THEN None
    ELSE Centimeters(Strip(Lower(height.v)))

-----------------------------------------------------------------------------
(* Texts the parsers are run on: up to MaxTokens tokens laid end to end, no
   two numbers adjacent *)

MaxTokens == 3

T_sp == <<" ">>
T_180 == <<"1", "8", "0">>
T_1_8 == <<"1", ".", "8">>
T_5 == <<"5">>
T_11 == <<"1", "1">>
T_71 == <<"7", "1">>
T_70 == <<"7", "0">>
T_999 == <<"9", "9", "9">>
T_180_55 == <<"1", "8", "0", ".", "5", "5">>
T_cm == <<"c", "m">>
T_m == <<"m">>
T_in == <<"i", "n">>
T_inches == <<"i", "n", "c", "h", "e", "s">>
T_ft == <<"f", "t">>
T_quote == <<"'">>
T_dquote == <<"\"">>

HeightNumbers == {T_180, T_1_8, T_5, T_11, T_71, T_70, T_999, T_180_55}
HeightTokens == HeightNumbers \cup {T_sp, T_cm, T_m, T_in, T_inches, T_ft, T_quote, T_dquote}

TokenSeqs(toks, nums) ==
    {ts \in UNION {[1 .. n -> toks] : n \in 0 .. MaxTokens} :
        \A i \in 1 .. Len(ts) - 1 : ~(ts[i] \in nums /\ ts[i + 1] \in nums)}

HeightInputs == {None} \cup {PyStr(Flatten(ts)) : ts \in TokenSeqs(HeightTokens, HeightNumbers)}

NoPipeline ==
    /\ out_is_df = FALSE
    /\ collected_data = <<>>
    /\ df_raw = NotCalled
    /\ out = NotCalled
    /\ cleaned_df = NotCalled
    /\ first_df = NotCalled

InitHeight == text \in HeightInputs /\ parsed = NotCalled /\ pc = "call" /\ NoPipeline

CallParseHeight ==
    /\ pc = "call"
    /\ parsed' = parse_height_to_cm(text)
    /\ pc' = "return"
    /\ UNCHANGED <<text, pipeline_vars>>

SpecHeight == InitHeight /\ [][CallParseHeight]_vars

Text(ts) == PyStr(Flatten(ts))

-----------------------------------------------------------------------------
(* Dates: datetime.date, datetime.strptime *)

IsLeap(y) == (y % 4 = 0 /\ y % 100 # 0) \/ y % 400 = 0

DaysInMonth(y, m) ==
    IF m = 2 THEN (IF IsLeap(y) THEN 29 ELSE 28)
    ELSE IF m \in {4, 6, 9, 11} THEN 30 ELSE 31

\* date(y, m, d) raises ValueError unless this holds
ValidDate(y, m, d) ==
    /\ 1 <= y /\ y <= 9999
    /\ 1 <= m /\ m <= 12
    /\ 1 <= d /\ d <= DaysInMonth(y, m)

\* str(date): the ISO form YYYY-MM-DD
DateToStr(dt) ==
    <<DigitChar(dt.y \div 1000), DigitChar((dt.y \div 100) % 10),
      DigitChar((dt.y \div 10) % 10), DigitChar(dt.y % 10), "-",
      DigitChar(dt.m \div 10), DigitChar(dt.m % 10), "-",
      DigitChar(dt.d \div 10), DigitChar(dt.d % 10)>>

\* str(x) of the values a cell can hold when a parser reads it
PyStrOf(x) == IF x.k = "date" THEN DateToStr(x) ELSE x.v

MonthNames ==
    <<<<"j", "a", "n", "u", "a", "r", "y">>, <<"f", "e", "b", "r", "u", "a", "r", "y">>,
      <<"m", "a", "r", "c", "h">>, <<"a", "p", "r", "i", "l">>, <<"m", "a", "y">>,
      <<"j", "u", "n", "e">>, <<"j", "u", "l", "y">>, <<"a", "u", "g", "u", "s", "t">>,
      <<"s", "e", "p", "t", "e", "m", "b", "e", "r">>, <<"o", "c", "t", "o", "b", "e", "r">>,
      <<"n", "o", "v", "e", "m", "b", "e", "r">>, <<"d", "e", "c", "e", "m", "b", "e", "r">>>>

MonthAbbrs == [i \in 1 .. 12 |-> SubSeq(MonthNames[i], 1, 3)]

MonthIndex(names, cs) == CHOOSE i \in 1 .. 12 : names[i] = Lower(cs)

\* strptime's pattern of a directive that names a month: the names, longest first
MonthsLongestFirst == <<9, 2, 11, 12, 1, 10, 8, 3, 4, 6, 7, 5>>
RE_B == Alt([i \in 1 .. 12 |-> Word(MonthNames[MonthsLongestFirst[i]])])
RE_b == Alt([i \in 1 .. 12 |-> Word(MonthAbbrs[i])])

Range(a, b) == Cls({DigitChar(n) : n \in a .. b})

\* strptime's %d: 3[0-1]|[1-2]\d|0[1-9]|[1-9]| [1-9]
RE_d ==
    Alt(<<Cat(<<Lit("3"), Range(0, 1)>>), Cat(<<Range(1, 2), D>>),
          Cat(<<Lit("0"), Range(1, 9)>>), Range(1, 9), Cat(<<Lit(" "), Range(1, 9)>>)>>)

\* strptime's %m: 1[0-2]|0[1-9]|[1-9]
RE_mm == Alt(<<Cat(<<Lit("1"), Range(0, 2)>>), Cat(<<Lit("0"), Range(1, 9)>>), Range(1, 9)>>)

RE_Y == Cat(<<D, D, D, D>>)      \* strptime's %Y
RE_y == Cat(<<D, D>>)            \* strptime's %y

\* The seven layouts of date_formats.  Group 1 is the year, 2 the month, 3 the
\* day; a blank of the layout is \s+.  kind says how year and month are read.
DateFormats ==
    << [re |-> Cat(<<Grp(2, RE_B), Plus(S), Grp(3, RE_d), Lit(","), Plus(S), Grp(1, RE_Y)>>),
        month |-> "B", year |-> "Y"],
       [re |-> Cat(<<Grp(2, RE_b), Plus(S), Grp(3, RE_d), Lit(","), Plus(S), Grp(1, RE_Y)>>),
        month |-> "b", year |-> "Y"],
       [re |-> Cat(<<Grp(2, RE_mm), Lit("/"), Grp(3, RE_d), Lit("/"), Grp(1, RE_Y)>>),
        month |-> "m", year |-> "Y"],
       [re |-> Cat(<<Grp(2, RE_mm), Lit("/"), Grp(3, RE_d), Lit("/"), Grp(1, RE_y)>>),
        month |-> "m", year |-> "y"],
       [re |-> Cat(<<Grp(1, RE_Y), Lit("-"), Grp(2, RE_mm), Lit("-"), Grp(3, RE_d)>>),
        month |-> "m", year |-> "Y"],
       [re |-> Cat(<<Grp(3, RE_d), Plus(S), Grp(2, RE_B), Plus(S), Grp(1, RE_Y)>>),
        month |-> "B", year |-> "Y"],
       [re |-> Cat(<<Grp(3, RE_d), Plus(S), Grp(2, RE_b), Plus(S), Grp(1, RE_Y)>>),
        month |-> "b", year |-> "Y"] >>

\* strptime reads a two-digit year with the POSIX pivot: 69-99 are 19xx, 00-68 20xx
StrptimeYear(kind, cs) ==
    IF kind = "Y" THEN ToInt(cs)
    ELSE IF ToInt(cs) <= 68 THEN 2000 + ToInt(cs) ELSE 1900 + ToInt(cs)

StrptimeMonth(kind, cs) ==
    CASE kind = "B" -> MonthIndex(MonthNames, cs)
      [] kind = "b" -> MonthIndex(MonthAbbrs, cs)
      [] kind = "m" -> ToInt(cs)

\* datetime.strptime(text, fmt).date(), None standing for the ValueError that
\* _parse_date_with_format catches: no match at the start of the text, text left
\* over after the match, or a day the month does not have
_parse_date_with_format(s, fmt) ==
    LET found == Match(fmt.re, Lower(s))
        y == StrptimeYear(fmt.year, found.caps[1])
        m == StrptimeMonth(fmt.month, found.caps[2])
        d == ToInt(Strip(found.caps[3]))
    IN  IF found.ok /\ found.end = Len(s) /\ ValidDate(y, m, d)
        THEN PyDate(y, m, d) ELSE None

\* r'\b(\d{4})-(\d{1,2})-(\d{1,2})\b' with groups (year, month, day) = (0, 1, 2)
RE_iso ==
    [re |-> Cat(<<WordBoundary, Grp(1, Rep(D, 4, 4)), Lit("-"), Grp(2, Rep(D, 1, 2)),
                  Lit("-"), Grp(3, Rep(D, 1, 2)), WordBoundary>>),
     year_group |-> 1, month_group |-> 2, day_group |-> 3]

\* r'\b(\d{1,2})/(\d{1,2})/(\d{2,4})\b' with groups (year, month, day) = (2, 0, 1)
RE_slashed ==
    [re |-> Cat(<<WordBoundary, Grp(1, Rep(D, 1, 2)), Lit("/"), Grp(2, Rep(D, 1, 2)),
                  Lit("/"), Grp(3, Rep(D, 2, 4)), WordBoundary>>),
     year_group |-> 3, month_group |-> 1, day_group |-> 2]

\* len(str(year)) of a year below 10000
DecimalLen(n) == IF n < 10 THEN 1 ELSE IF n < 100 THEN 2 ELSE IF n < 1000 THEN 3 ELSE 4

\* the two-digit year rule of _parse_date_with_regex
RegexYear(year) ==
    IF DecimalLen(year) = 2 THEN (IF year > 25 THEN year + 1900 ELSE year + 2000)
    ELSE year

_parse_date_with_regex(s, pattern) ==
    LET match == Search(pattern.re, s)
        year == RegexYear(ToInt(match.caps[pattern.year_group]))
        month == ToInt(match.caps[pattern.month_group])
        day == ToInt(match.caps[pattern.day_group])
    IN  IF match.ok /\ ValidDate(year, month, day) THEN PyDate(year, month, day)
        ELSE None

RECURSIVE TryFormats(_, _)
TryFormats(s, i) ==
    IF i > Len(DateFormats) THEN None
    ELSE LET parsed_date == _parse_date_with_format(s, DateFormats[i])
         IN  IF parsed_date # None THEN parsed_date ELSE TryFormats(s, i + 1)

date_patterns == <<RE_iso, RE_slashed>>

RECURSIVE TryPatterns(_, _)
TryPatterns(s, i) ==
    IF i > Len(date_patterns) THEN None
    ELSE LET parsed_date == _parse_date_with_regex(s, date_patterns[i])
         IN  IF parsed_date # None THEN parsed_date ELSE TryPatterns(s, i + 1)

parse_date(x) ==
    IF x.k = "list" THEN Raised
    ELSE IF x.k = "none" \/ Strip(PyStrOf(x)) = <<>> THEN None
    ELSE LET s == Strip(PyStrOf(x))
             direct == TryFormats(s, 1)
         IN  IF direct # None THEN direct ELSE TryPatterns(s, 1)

-----------------------------------------------------------------------------
(* Date texts: slashed dates with every two-digit year, alone or after a word,
   and up to MaxDateParts dates and words with a blank between them *)

MaxDateParts == 3

TwoDigits(n) == <<DigitChar(n \div 10), DigitChar(n % 10)>>

\* the month and day of the slashed dates, as written and as numbers
SlashedDays ==
    {[txt |-> <<"0", "4", "/", "1", "3">>, m |-> 4, d |-> 13], [txt |-> <<"4", "/", "3">>, m |-> 4, d |-> 3]}

\* nothing, or a word and a blank, before a slashed date
SlashedFronts == {<<>>, <<"b", "o", "r", "n", " ">>}

ShortYearText(front, md, yy) == PyStr(front \o md.txt \o <<"/">> \o TwoDigits(yy))

ShortYearTexts ==
    {ShortYearText(front, md, yy) : front \in SlashedFronts, md \in SlashedDays, yy \in 0 .. 99}

\* one date per supported layout, each a different day, and two words
DateParts ==
    {<<"A", "p", "r", "i", "l", " ", "1", "3", ",", " ", "1", "9", "6", "1">>, <<"1", "4", " ", "M", "a", "y", " ", "1", "9", "6", "2">>, <<"0", "6", "/", "1", "5", "/", "1", "9", "6", "3">>, <<"1", "9", "6", "4", "-", "0", "7", "-", "1", "6">>, <<"A", "u", "g", " ", "1", "7", ",", " ", "1", "9", "6", "5">>, <<"b", "o", "r", "n">>, <<"(", "e", "x", "a", "c", "t", ")">>}

RECURSIVE Join(_)
Join(parts) ==
    IF Len(parts) = 1 THEN parts[1] ELSE parts[1] \o <<" ">> \o Join(Tail(parts))

DateTexts ==
    {PyStr(Join(parts)) : parts \in UNION {[1 .. n -> DateParts] : n \in 1 .. MaxDateParts}}

DateInputs == {None} \cup ShortYearTexts \cup DateTexts

InitDate == text \in DateInputs /\ parsed = NotCalled /\ pc = "call" /\ NoPipeline

CallParseDate ==
    /\ pc = "call"
    /\ parsed' = parse_date(text)
    /\ pc' = "return"
    /\ UNCHANGED <<text, pipeline_vars>>

SpecDate == InitDate /\ [][CallParseDate]_vars

-----------------------------------------------------------------------------
(* parse_weight_to_kg *)

\* r'(\d+(?:\.\d+)?)\s*kg\b'
RE_kg ==
    Cat(<<Grp(1, Cat(<<Plus(D), Opt(Cat(<<Lit("."), Plus(D)>>))>>)),
          Star(S), Word(<<"k", "g">>), WordBoundary>>)

\* r'(\d+(?:\.\d+)?)'
RE_nums == Grp(1, Cat(<<Plus(D), Opt(Cat(<<Lit("."), Plus(D)>>))>>))

\* list(map(float, ...)), in hundredths
Floats(caps) == [i \in DOMAIN caps |-> Hundredths(caps[i])]

RECURSIVE Sum(_)
Sum(vals) == IF vals = <<>> THEN 0 ELSE Head(vals) + Sum(Tail(vals))

Min(vals) == CHOOSE v \in {vals[i] : i \in DOMAIN vals} : \A i \in DOMAIN vals : v <= vals[i]
Max(vals) == CHOOSE v \in {vals[i] : i \in DOMAIN vals} : \A i \in DOMAIN vals : v >= vals[i]

\* round(val_lb * 0.45359237, 1) in hundredths of a kilogram, where twice is
\* 2 * val_lb in hundredths of a pound.  twice * 45359237 / (2 * 10^9) tenths,
\* computed in two parts to stay inside 32-bit integers.
PoundsToKg(twice) ==
    LET a == twice * 4535
        b == twice * 9237
        high == a + (b \div 10000)
        low == b % 10000
        q == high \div 200000
        r == high % 200000
        up == r > 100000 \/ (r = 100000 /\ (low > 0 \/ q % 2 = 1))
    IN  10 * (IF up THEN q + 1 ELSE q)

Kilograms(vals) == PyFloat(Round1(Sum(vals), 100 * Len(vals)))

\* a variant of Pounds: the mean of all the numbers, not the midpoint of the
\* smallest and the largest
PoundsMean(vals) == PyFloat(PoundsToKg((2 * Sum(vals)) \div Len(vals)))

Pounds(vals) ==
    PyFloat(PoundsToKg(IF Len(vals) >= 2 THEN Min(vals) + Max(vals) ELSE 2 * vals[1]))

parse_weight_to_kg(weight) ==
    IF weight.k = "list" THEN Raised
    ELSE IF IsBlank(weight) THEN None
    ELSE LET s == Lower(weight.v)
             m_kg == FindAll(RE_kg, s)
             nums == FindAll(RE_nums, s)
         IN  IF m_kg # <<>> THEN Kilograms(Floats(m_kg))
             ELSE IF nums # <<>> THEN Pounds(Floats(nums))
             ELSE None

-----------------------------------------------------------------------------
(* Weight texts: up to MaxWeights numbers, each with what follows it, and the
   texts of the documented examples *)

MaxWeights == 3

WeightNumbers == {<<"1", "5", "0">>, <<"1", "7", "0">>, <<"7", "2", ".", "5">>}

\* what follows a number that another number follows
WeightLinks == {<<"-">>, <<" ", "k", "g", " ">>, <<"k", "g">>, <<" ", "l", "b", "s", " ">>, <<"k", "g", "s", " ">>}

\* what follows the last number
WeightEnds == {<<>>, <<" ", "k", "g">>, <<" ", "l", "b", "s">>, <<"k", "g", "s">>}

WeightItems(tails) == {n \o t : n \in WeightNumbers, t \in tails}

WeightTexts ==
    UNION {{Flatten(front) \o last :
               front \in [1 .. n - 1 -> WeightItems(WeightLinks)],
               last \in WeightItems(WeightEnds)} : n \in 1 .. MaxWeights}

WeightExamples ==
    {<<"1", "6", "0", " ", "l", "b", "s">>, <<"7", "0", " ", "k", "g">>, <<"7", "0", " ", "K", "G">>, <<"7", "0", " ", "k", "g", "s">>, <<"l", "b", "s">>, <<" ", " ">>, <<>>}

WeightInputs == {None} \cup {PyStr(cs) : cs \in WeightTexts \cup WeightExamples}

InitWeight == text \in WeightInputs /\ parsed = NotCalled /\ pc = "call" /\ NoPipeline

CallParseWeight ==
    /\ pc = "call"
    /\ parsed' = parse_weight_to_kg(text)
    /\ pc' = "return"
    /\ UNCHANGED <<text, pipeline_vars>>

SpecWeight == InitWeight /\ [][CallParseWeight]_vars

-----------------------------------------------------------------------------
(* re.split and str.replace *)

\* re.split(r, s); with ignorecase the pattern is matched against the lowered
\* text (the patterns are written in lower case) and the pieces are cut from s
RECURSIVE SplitFrom(_, _, _, _)
SplitFrom(r, s, low, i) ==
    LET m == SearchFrom(r, low, i)
    IN  IF ~m.ok \/ m.end = m.start THEN <<SubSeq(s, i + 1, Len(s))>>
        ELSE <<SubSeq(s, i + 1, m.start)>> \o SplitFrom(r, s, low, m.end)

Split(r, s, ignorecase) == SplitFrom(r, s, IF ignorecase THEN Lower(s) ELSE s, 0)

StartsWith(s, i, w) == i + Len(w) <= Len(s) /\ SubSeq(s, i + 1, i + Len(w)) = w

\* s.replace(old, new)
RECURSIVE ReplaceFrom(_, _, _, _)
ReplaceFrom(s, i, old, new) ==
    IF i >= Len(s) THEN <<>>
    ELSE IF StartsWith(s, i, old) THEN new \o ReplaceFrom(s, i + Len(old), old, new)
    ELSE <<s[i + 1]>> \o ReplaceFrom(s, i + 1, old, new)

Replace(s, old, new) == ReplaceFrom(s, 0, old, new)

\* w in s
Contains(s, w) == \E i \in 0 .. Len(s) - Len(w) : StartsWith(s, i, w)

-----------------------------------------------------------------------------
(* count_aliases *)

\* r'(?:\saka\s|\s*\|\s*|,\s*|;\s*|\n+)'
RE_alias_sep ==
    Alt(<<Cat(<<S, Word(<<"a", "k", "a">>), S>>), Cat(<<Star(S), Lit("|"), Star(S)>>),
          Cat(<<Lit(","), Star(S)>>), Cat(<<Lit(";"), Star(S)>>), Plus(Lit("\n"))>>)

AliasStoplist == {<<"-">>, <<"N", "o", "n", "e">>, <<"N", "/", "A">>, <<"n", "/", "a">>}

RECURSIVE CountKept(_)
CountKept(parts) ==
    IF parts = <<>> THEN 0
    ELSE (IF Head(parts) # <<>> /\ Strip(Head(parts)) \notin AliasStoplist THEN 1 ELSE 0)
         + CountKept(Tail(parts))

count_aliases(x) ==
    IF x.k = "list" THEN Raised
    ELSE IF IsBlank(x) THEN PyInt(0)
    ELSE LET s == Replace(Strip(x.v), <<"a", "/", "k", "/", "a">>, <<"a", "k", "a">>)
         IN  PyInt(CountKept(Split(RE_alias_sep, s, TRUE)))

-----------------------------------------------------------------------------
(* compute_age and zodiac_sign *)

TODAY == PyDate(2025, 10, 21)

\* the year difference alone, the birthday of the year not looked at
YearDifference(birth_date, ref_date) ==
    IF birth_date = None THEN None
    ELSE IF ref_date.y - birth_date.y >= 0 THEN PyInt(ref_date.y - birth_date.y) ELSE None

compute_age(birth_date, ref_date) ==
    IF birth_date = None THEN None
    ELSE LET years == ref_date.y - birth_date.y
             before == ref_date.m < birth_date.m
                           \/ (ref_date.m = birth_date.m /\ ref_date.d < birth_date.d)
             age == IF before THEN years - 1 ELSE years
         IN  IF age >= 0 THEN PyInt(age) ELSE None

zodiac_ranges ==
    << [start |-> <<1, 20>>, end |-> <<2, 18>>, sign |-> "Aquarius"],
       [start |-> <<2, 19>>, end |-> <<3, 20>>, sign |-> "Pisces"],
       [start |-> <<3, 21>>, end |-> <<4, 19>>, sign |-> "Aries"],
       [start |-> <<4, 20>>, end |-> <<5, 20>>, sign |-> "Taurus"],
       [start |-> <<5, 21>>, end |-> <<6, 20>>, sign |-> "Gemini"],
       [start |-> <<6, 21>>, end |-> <<7, 22>>, sign |-> "Cancer"],
       [start |-> <<7, 23>>, end |-> <<8, 22>>, sign |-> "Leo"],
       [start |-> <<8, 23>>, end |-> <<9, 22>>, sign |-> "Virgo"],
       [start |-> <<9, 23>>, end |-> <<10, 22>>, sign |-> "Libra"],
       [start |-> <<10, 23>>, end |-> <<11, 21>>, sign |-> "Scorpio"],
       [start |-> <<11, 22>>, end |-> <<12, 21>>, sign |-> "Sagittarius"],
       [start |-> <<0, 0>>, end |-> <<0, 0>>, sign |-> "Capricorn"] >>

\* the loop with every range ending before its last day
RECURSIVE ZodiacHalfOpen(_, _, _)
ZodiacHalfOpen(month, day, i) ==
    IF i > Len(zodiac_ranges) THEN None
    ELSE LET z == zodiac_ranges[i]
         IN  IF \/ z.start = <<0, 0>>
                \/ (month = z.start[1] /\ day >= z.start[2])
                \/ (month = z.end[1] /\ day < z.end[2])
             THEN PyLabel(z.sign)
             ELSE ZodiacHalfOpen(month, day, i + 1)

\* the loop of zodiac_sign: the first range the date falls in; the last entry
\* (start None in the source, <<0, 0>> here) takes every date
RECURSIVE ZodiacFrom(_, _, _)
ZodiacFrom(month, day, i) ==
    IF i > Len(zodiac_ranges) THEN None
    ELSE LET z == zodiac_ranges[i]
         IN  IF \/ z.start = <<0, 0>>
                \/ (month = z.start[1] /\ day >= z.start[2])
                \/ (month = z.end[1] /\ day <= z.end[2])
             THEN PyLabel(z.sign)
             ELSE ZodiacFrom(month, day, i + 1)

zodiac_sign(birth_date) ==
    IF birth_date = None THEN None ELSE ZodiacFrom(birth_date.m, birth_date.d, 1)

-----------------------------------------------------------------------------
(* split_languages, extract_first_hair_color, the two detectors *)

AndWord == Cat(<<Plus(S), Word(<<"a", "n", "d">>), Plus(S)>>)

\* r'[,;/]|\s+and\s+'
RE_lang_sep == Alt(<<Cls({",", ";", "/"}), AndWord>>)

RECURSIVE StripNonEmpty(_)
StripNonEmpty(parts) ==
    IF parts = <<>> THEN <<>>
    ELSE (IF Strip(Head(parts)) # <<>> THEN <<Strip(Head(parts))>> ELSE <<>>)
         \o StripNonEmpty(Tail(parts))

split_languages(x) ==
    IF x.k = "list" THEN Raised
    ELSE IF IsBlank(x) THEN <<None, None, None>>
    ELSE LET languages == StripNonEmpty(Split(RE_lang_sep, Strip(x.v), TRUE))
         IN  [i \in 1 .. 3 |-> IF Len(languages) >= i THEN PyStr(languages[i]) ELSE None]

\* r'[/\(]|\s+and\s+'
RE_hair_sep == Alt(<<Cls({"/", "("}), AndWord>>)

extract_first_hair_color(x) ==
    IF x.k = "list" THEN Raised
    ELSE IF IsBlank(x) THEN None
    ELSE LET hair_clean == Strip(Split(RE_hair_sep, Strip(x.v), TRUE)[1])
         IN  IF hair_clean # <<>> THEN PyStr(hair_clean) ELSE None

scar_keywords ==
    << \* r'\btattoo|ink\b'
       Alt(<<Cat(<<WordBoundary, Word(<<"t", "a", "t", "t", "o", "o">>)>>), Cat(<<Word(<<"i", "n", "k">>), WordBoundary>>)>>),
       \* r'\bscar(s)?\b'
       Cat(<<WordBoundary, Word(<<"s", "c", "a", "r">>), Opt(Grp(1, Lit("s"))), WordBoundary>>),
       \* r'\bpierc(ed|ing|ings)\b'
       Cat(<<WordBoundary, Word(<<"p", "i", "e", "r", "c">>),
             Grp(1, Alt(<<Word(<<"e", "d">>), Word(<<"i", "n", "g">>), Word(<<"i", "n", "g", "s">>)>>)), WordBoundary>>),
       \* r'\bburn(ed|s| mark)\b'
       Cat(<<WordBoundary, Word(<<"b", "u", "r", "n">>),
             Grp(1, Alt(<<Word(<<"e", "d">>), Lit("s"), Word(<<" ", "m", "a", "r", "k">>)>>)), WordBoundary>>),
       \* r'\bmissing\s+finger(s)?\b'
       Cat(<<WordBoundary, Word(<<"m", "i", "s", "s", "i", "n", "g">>), Plus(S), Word(<<"f", "i", "n", "g", "e", "r">>),
             Opt(Grp(1, Lit("s"))), WordBoundary>>),
       \* r'\bfreckle(s)?\b'
       Cat(<<WordBoundary, Word(<<"f", "r", "e", "c", "k", "l", "e">>), Opt(Grp(1, Lit("s"))), WordBoundary>>),
       \* r'\bmole\b'
       Cat(<<WordBoundary, Word(<<"m", "o", "l", "e">>), WordBoundary>>),
       \* r'\bbirthmark\b'
       Cat(<<WordBoundary, Word(<<"b", "i", "r", "t", "h", "m", "a", "r", "k">>), WordBoundary>>) >>

detect_scars_marks(x) ==
    IF x.k = "list" THEN Raised
    ELSE IF IsBlank(x) THEN PyBool(FALSE)
    ELSE PyBool(\E i \in DOMAIN scar_keywords : Search(scar_keywords[i], Lower(x.v)).ok)

\* r'\$\s*[\d,]+(?:\.\d{1,2})?'
RE_dollar ==
    Cat(<<Lit("$"), Star(S), Plus(Cls(Digits \cup {","})),
          Opt(Cat(<<Lit("."), Rep(D, 1, 2)>>))>>)

detect_dollar_amounts(x) ==
    IF x.k = "list" THEN Raised
    ELSE IF IsBlank(x) THEN PyBool(FALSE)
    ELSE PyBool(Search(RE_dollar, x.v).ok)

-----------------------------------------------------------------------------
(* categorize_occupation *)

\* the dict OCCUPATION_KEYWORDS, in its insertion order
OCCUPATION_KEYWORDS ==
    <<
       [category |-> "Military/Intelligence", keywords |-> <<
           <<"o", "f", "f", "i", "c", "e", "r">>,
           <<"g", "r", "u">>,
           <<"i", "n", "t", "e", "l", "l", "i", "g", "e", "n", "c", "e">>,
           <<"m", "i", "l", "i", "t", "a", "r", "y">>,
           <<"f", "s", "b">>,
           <<"s", "e", "c", "u", "r", "i", "t", "y", " ", "s", "e", "r", "v", "i", "c", "e">>,
           <<"s", "y", "r", "i", "a", "n", " ", "a", "i", "r", " ", "f", "o", "r", "c", "e">>,
           <<"a", "r", "m", "y">>,
           <<"n", "a", "v", "y">>,
           <<"m", "a", "r", "i", "n", "e">>,
           <<"d", "i", "r", "e", "c", "t", "o", "r", "a", "t", "e">>,
           <<"g", "e", "n", "e", "r", "a", "l", " ", "s", "t", "a", "f", "f">>
         >>],
       [category |-> "Medical", keywords |-> <<
           <<"d", "o", "c", "t", "o", "r">>,
           <<"s", "u", "r", "g", "e", "o", "n">>,
           <<"p", "h", "y", "s", "i", "c", "i", "a", "n">>,
           <<"n", "u", "r", "s", "e">>,
           <<"n", "u", "r", "s", "i", "n", "g">>,
           <<"t", "h", "e", "r", "a", "p", "i", "s", "t">>,
           <<"c", "a", "r", "d", "i", "o", "l", "o", "g", "i", "s", "t">>,
           <<"m", "e", "d", "i", "c", "a", "l">>,
           <<"c", "a", "t", "h", "e", "t", "e", "r">>,
           <<"r", "e", "s", "p", "i", "r", "a", "t", "o", "r", "y">>,
           <<"c", "h", "i", "r", "o", "p", "r", "a", "c", "t", "o", "r">>,
           <<"a", "c", "u", "p", "u", "n", "c", "t", "u", "r", "i", "s", "t">>,
           <<"c", "h", "e", "m", "i", "s", "t">>,
           <<"p", "h", "a", "r", "m", "a", "c", "e", "u", "t", "i", "c", "a", "l">>
         >>],
       [category |-> "IT/Technology", keywords |-> <<
           <<"i", "t", " ", "w", "o", "r", "k", "e", "r">>,
           <<"s", "o", "f", "t", "w", "a", "r", "e">>,
           <<"p", "r", "o", "g", "r", "a", "m", "m", "e", "r">>,
           <<"d", "e", "v", "e", "l", "o", "p", "e", "r">>,
           <<"e", "n", "g", "i", "n", "e", "e", "r">>,
           <<"c", "o", "m", "p", "u", "t", "e", "r">>,
           <<"n", "e", "t", "w", "o", "r", "k">>,
           <<"b", "l", "o", "c", "k", "c", "h", "a", "i", "n">>,
           <<"b", "a", "c", "k", "e", "n", "d">>,
           <<"z", "k", "s", "n", "a", "r", "k">>,
           <<"t", "e", "c", "h", "n", "o", "l", "o", "g", "y">>,
           <<"w", "e", "b">>
         >>],
       [category |-> "Construction", keywords |-> <<
           <<"c", "o", "n", "s", "t", "r", "u", "c", "t", "i", "o", "n">>,
           <<"c", "a", "r", "p", "e", "n", "t", "e", "r">>,
           <<"w", "e", "l", "d", "e", "r">>,
           <<"e", "l", "e", "c", "t", "r", "i", "c", "i", "a", "n">>,
           <<"p", "l", "u", "m", "b", "e", "r">>,
           <<"m", "a", "s", "o", "n">>,
           <<"p", "a", "i", "n", "t", "e", "r">>,
           <<"h", "a", "n", "d", "y", "m", "a", "n">>,
           <<"b", "u", "i", "l", "d", "e", "r">>,
           <<"c", "o", "n", "t", "r", "a", "c", "t", "o", "r">>,
           <<"t", "r", "a", "c", "t", "o", "r", " ", "d", "r", "i", "v", "e", "r">>,
           <<"f", "l", "o", "o", "r", " ", "s", "a", "n", "d", "e", "r">>
         >>],
       [category |-> "Transportation", keywords |-> <<
           <<"d", "r", "i", "v", "e", "r">>,
           <<"t", "r", "u", "c", "k">>,
           <<"t", "a", "x", "i">>,
           <<"c", "a", "b">>,
           <<"m", "e", "c", "h", "a", "n", "i", "c">>,
           <<"a", "v", "i", "a", "t", "i", "o", "n">>,
           <<"p", "i", "l", "o", "t">>,
           <<"s", "h", "i", "p", "p", "i", "n", "g">>,
           <<"b", "o", "a", "t">>,
           <<"s", "h", "i", "p">>
         >>],
       [category |-> "Food Service", keywords |-> <<
           <<"c", "o", "o", "k">>,
           <<"c", "h", "e", "f">>,
           <<"w", "a", "i", "t", "e", "r">>,
           <<"r", "e", "s", "t", "a", "u", "r", "a", "n", "t">>,
           <<"f", "o", "o", "d", " ", "s", "e", "r", "v", "i", "c", "e">>,
           <<"k", "i", "t", "c", "h", "e", "n">>
         >>],
       [category |-> "Business/Management", keywords |-> <<
           <<"c", "e", "o">>,
           <<"p", "r", "e", "s", "i", "d", "e", "n", "t">>,
           <<"d", "i", "r", "e", "c", "t", "o", "r">>,
           <<"m", "a", "n", "a", "g", "e", "r">>,
           <<"e", "x", "e", "c", "u", "t", "i", "v", "e">>,
           <<"b", "u", "s", "i", "n", "e", "s", "s", "m", "a", "n">>,
           <<"e", "n", "t", "r", "e", "p", "r", "e", "n", "e", "u", "r">>,
           <<"o", "w", "n", "e", "r">>,
           <<"o", "p", "e", "r", "a", "t", "o", "r">>,
           <<"c", "o", "n", "s", "u", "l", "t", "a", "n", "t">>
         >>],
       [category |-> "Finance/Trading", keywords |-> <<
           <<"b", "r", "o", "k", "e", "r">>,
           <<"t", "r", "a", "d", "e", "r">>,
           <<"c", "o", "m", "m", "o", "d", "i", "t", "i", "e", "s">>,
           <<"i", "n", "v", "e", "s", "t", "m", "e", "n", "t">>,
           <<"b", "a", "n", "k", "i", "n", "g">>,
           <<"f", "i", "n", "a", "n", "c", "e">>,
           <<"a", "d", "v", "i", "s", "o", "r">>,
           <<"a", "s", "s", "e", "t", " ", "m", "a", "n", "a", "g", "e", "r">>
         >>],
       [category |-> "Government", keywords |-> <<
           <<"g", "o", "v", "e", "r", "n", "m", "e", "n", "t">>,
           <<"o", "f", "f", "i", "c", "i", "a", "l">>,
           <<"d", "i", "p", "l", "o", "m", "a", "t">>,
           <<"s", "e", "r", "v", "i", "c", "e", " ", "o", "f", "f", "i", "c", "e", "r">>,
           <<"t", "a", "x", "a", "t", "i", "o", "n">>,
           <<"c", "o", "m", "m", "i", "s", "s", "i", "o", "n">>,
           <<"d", "e", "l", "e", "g", "a", "t", "i", "o", "n">>
         >>],
       [category |-> "Law Enforcement", keywords |-> <<
           <<"p", "o", "l", "i", "c", "e">>,
           <<"c", "o", "n", "s", "t", "a", "b", "l", "e">>,
           <<"d", "i", "s", "p", "a", "t", "c", "h", "e", "r">>,
           <<"s", "e", "c", "u", "r", "i", "t", "y">>,
           <<"l", "a", "w", " ", "e", "n", "f", "o", "r", "c", "e", "m", "e", "n", "t">>
         >>],
       [category |-> "Agriculture", keywords |-> <<
           <<"f", "a", "r", "m">>,
           <<"a", "g", "r", "i", "c", "u", "l", "t", "u", "r", "e">>,
           <<"l", "a", "b", "o", "r", "e", "r">>,
           <<"m", "i", "g", "r", "a", "n", "t">>,
           <<"s", "e", "e", "d">>,
           <<"r", "i", "c", "e">>,
           <<"l", "a", "n", "d", "s", "c", "a", "p", "i", "n", "g">>
         >>],
       [category |-> "Sales/Retail", keywords |-> <<
           <<"s", "a", "l", "e", "s">>,
           <<"s", "a", "l", "e", "s", "m", "a", "n">>,
           <<"r", "e", "t", "a", "i", "l">>,
           <<"s", "t", "o", "r", "e">>,
           <<"c", "l", "e", "r", "k">>,
           <<"d", "e", "a", "l", "e", "r">>
         >>],
       [category |-> "Trade/Manufacturing", keywords |-> <<
           <<"w", "a", "r", "e", "h", "o", "u", "s", "e">>,
           <<"f", "a", "c", "t", "o", "r", "y">>,
           <<"m", "a", "n", "u", "f", "a", "c", "t", "u", "r", "i", "n", "g">>,
           <<"p", "r", "o", "d", "u", "c", "t", "i", "o", "n">>,
           <<"t", "e", "x", "t", "i", "l", "e">>,
           <<"p", "r", "o", "c", "u", "r", "e", "m", "e", "n", "t">>,
           <<"a", "r", "m", "s", " ", "b", "r", "o", "k", "e", "r">>
         >>],
       [category |-> "Religious", keywords |-> <<
           <<"p", "r", "i", "e", "s", "t">>,
           <<"p", "a", "s", "t", "o", "r">>,
           <<"r", "e", "l", "i", "g", "i", "o", "u", "s">>,
           <<"c", "l", "e", "r", "g", "y">>,
           <<"m", "i", "n", "i", "s", "t", "e", "r">>
         >>],
       [category |-> "Services", keywords |-> <<
           <<"m", "a", "s", "s", "a", "g", "e">>,
           <<"n", "a", "i", "l", " ", "t", "e", "c", "h", "n", "i", "c", "i", "a", "n">>,
           <<"b", "a", "r", "b", "e", "r">>,
           <<"s", "a", "l", "o", "n">>,
           <<"s", "p", "a">>
         >>],
       [category |-> "Education/Research", keywords |-> <<
           <<"t", "e", "a", "c", "h", "e", "r">>,
           <<"p", "r", "o", "f", "e", "s", "s", "o", "r">>,
           <<"r", "e", "s", "e", "a", "r", "c", "h", "e", "r">>,
           <<"e", "d", "u", "c", "a", "t", "i", "o", "n">>,
           <<"a", "c", "a", "d", "e", "m", "i", "c">>
         >>],
       [category |-> "Emergency Services", keywords |-> <<
           <<"f", "i", "r", "e", "m", "a", "n">>,
           <<"f", "i", "r", "e", "f", "i", "g", "h", "t", "e", "r">>,
           <<"p", "a", "r", "a", "m", "e", "d", "i", "c">>,
           <<"e", "m", "t">>,
           <<"r", "e", "s", "c", "u", "e">>
         >>],
       [category |-> "Entertainment", keywords |-> <<
           <<"r", "e", "c", "o", "r", "d", "i", "n", "g", " ", "s", "t", "u", "d", "i", "o">>,
           <<"a", "m", "u", "s", "e", "m", "e", "n", "t">>,
           <<"a", "r", "c", "a", "d", "e">>,
           <<"g", "a", "m", "e">>
         >>],
       [category |-> "Unknown", keywords |-> <<
           <<"u", "n", "k", "n", "o", "w", "n">>,
           <<"u", "n", "e", "m", "p", "l", "o", "y", "e", "d">>,
           <<"n", "o", "n", "e">>,
           <<"n", "/", "a">>
         >>]
    >>

\* the category of the last entry of the table with a keyword in the text
CategoryFromLast(text_lower, i) ==
    LET hits == {k \in i .. Len(OCCUPATION_KEYWORDS) :
                    \E j \in DOMAIN OCCUPATION_KEYWORDS[k].keywords :
                        Contains(text_lower, Lower(OCCUPATION_KEYWORDS[k].keywords[j]))}
    IN  IF hits = {} THEN PyLabel("Other")
        ELSE PyLabel(OCCUPATION_KEYWORDS[CHOOSE k \in hits : \A h \in hits : h <= k].category)

RECURSIVE CategoryFrom(_, _)
CategoryFrom(text_lower, i) ==
    IF i > Len(OCCUPATION_KEYWORDS) THEN PyLabel("Other")
    ELSE LET entry == OCCUPATION_KEYWORDS[i]
         IN  IF \E j \in DOMAIN entry.keywords : Contains(text_lower, Lower(entry.keywords[j]))
             THEN PyLabel(entry.category)
             ELSE CategoryFrom(text_lower, i + 1)

categorize_occupation(x) ==
    IF x.k = "list" THEN Raised
    ELSE IF IsBlank(x) THEN PyLabel("Unknown")
    ELSE CategoryFrom(Lower(x.v), 1)

-----------------------------------------------------------------------------
(* extract_country_from_birth_place *)

\* the dict BIRTH_PLACE_MAPPING: place, (country, ISO code)
BIRTH_PLACE_MAPPING ==
    <<
       [place |-> <<"L", "o", "s", " ", "A", "n", "g", "e", "l", "e", "s", ",", " ", "C", "a", "l", "i", "f", "o", "r", "n", "i", "a">>,
        value |-> <<PyStr(<<"U", "n", "i", "t", "e", "d", " ", "S", "t", "a", "t", "e", "s">>), PyStr(<<"U", "S", "A">>)>>],
       [place |-> <<"P", "a", "s", "a", "d", "e", "n", "a", ",", " ", "C", "a", "l", "i", "f", "o", "r", "n", "i", "a">>,
        value |-> <<PyStr(<<"U", "n", "i", "t", "e", "d", " ", "S", "t", "a", "t", "e", "s">>), PyStr(<<"U", "S", "A">>)>>],
       [place |-> <<"A", "r", "c", "a", "d", "i", "a", ",", " ", "C", "a", "l", "i", "f", "o", "r", "n", "i", "a">>,
        value |-> <<PyStr(<<"U", "n", "i", "t", "e", "d", " ", "S", "t", "a", "t", "e", "s">>), PyStr(<<"U", "S", "A">>)>>],
       [place |-> <<"S", "a", "c", "r", "a", "m", "e", "n", "t", "o", ",", " ", "C", "a", "l", "i", "f", "o", "r", "n", "i", "a">>,
        value |-> <<PyStr(<<"U", "n", "i", "t", "e", "d", " ", "S", "t", "a", "t", "e", "s">>), PyStr(<<"U", "S", "A">>)>>],
       [place |-> <<"S", "a", "n", " ", "F", "r", "a", "n", "c", "i", "s", "c", "o", ",", " ", "C", "a", "l", "i", "f", "o", "r", "n", "i", "a">>,
        value |-> <<PyStr(<<"U", "n", "i", "t", "e", "d", " ", "S", "t", "a", "t", "e", "s">>), PyStr(<<"U", "S", "A">>)>>],
       [place |-> <<"F", "r", "e", "s", "n", "o", ",", " ", "C", "a", "l", "i", "f", "o", "r", "n", "i", "a">>,
        value |-> <<PyStr(<<"U", "n", "i", "t", "e", "d", " ", "S", "t", "a", "t", "e", "s">>), PyStr(<<"U", "S", "A">>)>>],
       [place |-> <<"C", "a", "l", "i", "f", "o", "r", "n", "i", "a">>,
        value |-> <<PyStr(<<"U", "n", "i", "t", "e", "d", " ", "S", "t", "a", "t", "e", "s">>), PyStr(<<"U", "S", "A">>)>>],
       [place |-> <<"B", "r", "o", "o", "k", "l", "y", "n", ",", " ", "N", "e", "w", " ", "Y", "o", "r", "k">>,
        value |-> <<PyStr(<<"U", "n", "i", "t", "e", "d", " ", "S", "t", "a", "t", "e", "s">>), PyStr(<<"U", "S", "A">>)>>],
       [place |-> <<"N", "e", "w", " ", "Y", "o", "r", "k", " ", "C", "i", "t", "y", ",", " ", "N", "e", "w", " ", "Y", "o", "r", "k">>,
        value |-> <<PyStr(<<"U", "n", "i", "t", "e", "d", " ", "S", "t", "a", "t", "e", "s">>), PyStr(<<"U", "S", "A">>)>>],
       [place |-> <<"N", "e", "w", " ", "Y", "o", "r", "k">>,
        value |-> <<PyStr(<<"U", "n", "i", "t", "e", "d", " ", "S", "t", "a", "t", "e", "s">>), PyStr(<<"U", "S", "A">>)>>],
       [place |-> <<"E", "l", " ", "P", "a", "s", "o", ",", " ", "T", "e", "x", "a", "s">>,
        value |-> <<PyStr(<<"U", "n", "i", "t", "e", "d", " ", "S", "t", "a", "t", "e", "s">>), PyStr(<<"U", "S", "A">>)>>],
       [place |-> <<"M", "e", "m", "p", "h", "i", "s", ",", " ", "T", "e", "n", "n", "e", "s", "s", "e", "e">>,
        value |-> <<PyStr(<<"U", "n", "i", "t", "e", "d", " ", "S", "t", "a", "t", "e", "s">>), PyStr(<<"U", "S", "A">>)>>],
       [place |-> <<"M", "o", "b", "i", "l", "e", ",", " ", "A", "l", "a", "b", "a", "m", "a">>,
        value |-> <<PyStr(<<"U", "n", "i", "t", "e", "d", " ", "S", "t", "a", "t", "e", "s">>), PyStr(<<"U", "S", "A">>)>>],
       [place |-> <<"S", "e", "l", "m", "a", ",", " ", "A", "l", "a", "b", "a", "m", "a">>,
        value |-> <<PyStr(<<"U", "n", "i", "t", "e", "d", " ", "S", "t", "a", "t", "e", "s">>), PyStr(<<"U", "S", "A">>)>>],
       [place |-> <<"A", "l", "a", "b", "a", "m", "a">>,
        value |-> <<PyStr(<<"U", "n", "i", "t", "e", "d", " ", "S", "t", "a", "t", "e", "s">>), PyStr(<<"U", "S", "A">>)>>],
       [place |-> <<"S", "p", "r", "i", "n", "g", "f", "i", "e", "l", "d", ",", " ", "I", "l", "l", "i", "n", "o", "i", "s">>,
        value |-> <<PyStr(<<"U", "n", "i", "t", "e", "d", " ", "S", "t", "a", "t", "e", "s">>), PyStr(<<"U", "S", "A">>)>>],
       [place |-> <<"O", "l", "n", "e", "y", ",", " ", "I", "l", "l", "i", "n", "o", "i", "s">>,
        value |-> <<PyStr(<<"U", "n", "i", "t", "e", "d", " ", "S", "t", "a", "t", "e", "s">>), PyStr(<<"U", "S", "A">>)>>],
       [place |-> <<"I", "l", "l", "i", "n", "o", "i", "s">>,
        value |-> <<PyStr(<<"U", "n", "i", "t", "e", "d", " ", "S", "t", "a", "t", "e", "s">>), PyStr(<<"U", "S", "A">>)>>],
       [place |-> <<"D", "e", "t", "r", "o", "i", "t", ",", " ", "M", "i", "c", "h", "i", "g", "a", "n">>,
        value |-> <<PyStr(<<"U", "n", "i", "t", "e", "d", " ", "S", "t", "a", "t", "e", "s">>), PyStr(<<"U", "S", "A">>)>>],
       [place |-> <<"M", "i", "c", "h", "i", "g", "a", "n", ",", " ", "U", "S", "A">>,
        value |-> <<PyStr(<<"U", "n", "i", "t", "e", "d", " ", "S", "t", "a", "t", "e", "s">>), PyStr(<<"U", "S", "A">>)>>],
       [place |-> <<"M", "i", "a", "m", "i", ",", " ", "F", "l", "o", "r", "i", "d", "a">>,
        value |-> <<PyStr(<<"U", "n", "i", "t", "e", "d", " ", "S", "t", "a", "t", "e", "s">>), PyStr(<<"U", "S", "A">>)>>],
       [place |-> <<"F", "l", "o", "r", "i", "d", "a">>,
        value |-> <<PyStr(<<"U", "n", "i", "t", "e", "d", " ", "S", "t", "a", "t", "e", "s">>), PyStr(<<"U", "S", "A">>)>>],
       [place |-> <<"N", "e", "w", " ", "J", "e", "r", "s", "e", "y">>,
        value |-> <<PyStr(<<"U", "n", "i", "t", "e", "d", " ", "S", "t", "a", "t", "e", "s">>), PyStr(<<"U", "S", "A">>)>>],
       [place |-> <<"V", "i", "r", "g", "i", "n", "i", "a">>,
        value |-> <<PyStr(<<"U", "n", "i", "t", "e", "d", " ", "S", "t", "a", "t", "e", "s">>), PyStr(<<"U", "S", "A">>)>>],
       [place |-> <<"O", "r", "e", "g", "o", "n">>,
        value |-> <<PyStr(<<"U", "n", "i", "t", "e", "d", " ", "S", "t", "a", "t", "e", "s">>), PyStr(<<"U", "S", "A">>)>>],
       [place |-> <<"P", "e", "n", "n", "s", "y", "l", "v", "a", "n", "i", "a">>,
        value |-> <<PyStr(<<"U", "n", "i", "t", "e", "d", " ", "S", "t", "a", "t", "e", "s">>), PyStr(<<"U", "S", "A">>)>>],
       [place |-> <<"N", "o", "r", "t", "h", " ", "D", "a", "k", "o", "t", "a">>,
        value |-> <<PyStr(<<"U", "n", "i", "t", "e", "d", " ", "S", "t", "a", "t", "e", "s">>), PyStr(<<"U", "S", "A">>)>>],
       [place |-> <<"L", "o", "u", "i", "s", "i", "a", "n", "a">>,
        value |-> <<PyStr(<<"U", "n", "i", "t", "e", "d", " ", "S", "t", "a", "t", "e", "s">>), PyStr(<<"U", "S", "A">>)>>],
       [place |-> <<"M", "a", "s", "s", "a", "c", "h", "u", "s", "e", "t", "t", "s">>,
        value |-> <<PyStr(<<"U", "n", "i", "t", "e", "d", " ", "S", "t", "a", "t", "e", "s">>), PyStr(<<"U", "S", "A">>)>>],
       [place |-> <<"H", "a", "w", "a", "i", "i">>,
        value |-> <<PyStr(<<"U", "n", "i", "t", "e", "d", " ", "S", "t", "a", "t", "e", "s">>), PyStr(<<"U", "S", "A">>)>>],
       [place |-> <<"I", "d", "a", "h", "o">>,
        value |-> <<PyStr(<<"U", "n", "i", "t", "e", "d", " ", "S", "t", "a", "t", "e", "s">>), PyStr(<<"U", "S", "A">>)>>],
       [place |-> <<"O", "h", "i", "o">>,
        value |-> <<PyStr(<<"U", "n", "i", "t", "e", "d", " ", "S", "t", "a", "t", "e", "s">>), PyStr(<<"U", "S", "A">>)>>],
       [place |-> <<"W", "a", "d", "e", "s", "b", "o", "r", "o", ",", " ", "N", "o", "r", "t", "h", " ", "C", "a", "r", "o", "l", "i", "n", "a">>,
        value |-> <<PyStr(<<"U", "n", "i", "t", "e", "d", " ", "S", "t", "a", "t", "e", "s">>), PyStr(<<"U", "S", "A">>)>>],
       [place |-> <<"W", "a", "s", "h", "i", "n", "g", "t", "o", "n", ",", " ", "D", "C">>,
        value |-> <<PyStr(<<"U", "n", "i", "t", "e", "d", " ", "S", "t", "a", "t", "e", "s">>), PyStr(<<"U", "S", "A">>)>>],
       [place |-> <<"W", "a", "y", "n", "e", ",", " ", "P", "e", "n", "n", "s", "y", "l", "v", "a", "n", "i", "a">>,
        value |-> <<PyStr(<<"U", "n", "i", "t", "e", "d", " ", "S", "t", "a", "t", "e", "s">>), PyStr(<<"U", "S", "A">>)>>],
       [place |-> <<"H", "u", "n", "a", "n", " ", "P", "r", "o", "v", "i", "n", "c", "e", ",", " ", "C", "h", "i", "n", "a">>,
        value |-> <<PyStr(<<"C", "h", "i", "n", "a">>), PyStr(<<"C", "H", "N">>)>>],
       [place |-> <<"L", "i", "a", "o", "n", "i", "n", "g", ",", " ", "C", "h", "i", "n", "a">>,
        value |-> <<PyStr(<<"C", "h", "i", "n", "a">>), PyStr(<<"C", "H", "N">>)>>],
       [place |-> <<"H", "a", "n", "g", "z", "h", "o", "u", ",", " ", "Z", "h", "e", "j", "i", "a", "n", "g", " ", "P", "r", "o", "v", "i", "n", "c", "e", ",", " ", "C", "h", "i", "n", "a">>,
        value |-> <<PyStr(<<"C", "h", "i", "n", "a">>), PyStr(<<"C", "H", "N">>)>>],
       [place |-> <<"H", "e", "i", "l", "o", "n", "g", "j", "i", "a", "n", "g", ",", " ", "C", "h", "i", "n", "a">>,
        value |-> <<PyStr(<<"C", "h", "i", "n", "a">>), PyStr(<<"C", "H", "N">>)>>],
       [place |-> <<"W", "u", "s", "u", ",", " ", "X", "i", "n", "j", "i", "a", "n", "g", ",", " ", "C", "h", "i", "n", "a">>,
        value |-> <<PyStr(<<"C", "h", "i", "n", "a">>), PyStr(<<"C", "H", "N">>)>>],
       [place |-> <<"A", "n", "h", "u", "i", ",", " ", "C", "h", "i", "n", "a">>,
        value |-> <<PyStr(<<"C", "h", "i", "n", "a">>), PyStr(<<"C", "H", "N">>)>>],
       [place |-> <<"T", "a", "c", "h", "e", "n", "g", ",", " ", "X", "i", "n", "j", "i", "a", "n", "g", ",", " ", "C", "h", "i", "n", "a", " ", "o", "r", " ", "U", "r", "u", "m", "q", "i", ",", " ", "X", "i", "n", "j", "i", "a", "n", "g", ",", " ", "C", "h", "i", "n", "a">>,
        value |-> <<PyStr(<<"C", "h", "i", "n", "a">>), PyStr(<<"C", "H", "N">>)>>],
       [place |-> <<"S", "h", "a", "a", "n", "x", "i", ",", " ", "C", "h", "i", "n", "a">>,
        value |-> <<PyStr(<<"C", "h", "i", "n", "a">>), PyStr(<<"C", "H", "N">>)>>],
       [place |-> <<"S", "h", "a", "n", "d", "o", "n", "g", ",", " ", "C", "h", "i", "n", "a">>,
        value |-> <<PyStr(<<"C", "h", "i", "n", "a">>), PyStr(<<"C", "H", "N">>)>>],
       [place |-> <<"S", "h", "a", "n", "g", "h", "a", "i", ",", " ", "C", "h", "i", "n", "a">>,
        value |-> <<PyStr(<<"C", "h", "i", "n", "a">>), PyStr(<<"C", "H", "N">>)>>],
       [place |-> <<"W", "e", "i", "f", "a", "n", "g", ",", " ", "S", "h", "a", "n", "d", "o", "n", "g", ",", " ", "C", "h", "i", "n", "a">>,
        value |-> <<PyStr(<<"C", "h", "i", "n", "a">>), PyStr(<<"C", "H", "N">>)>>],
       [place |-> <<"Z", "h", "e", "j", "i", "a", "n", "g", ",", " ", "C", "h", "i", "n", "a">>,
        value |-> <<PyStr(<<"C", "h", "i", "n", "a">>), PyStr(<<"C", "H", "N">>)>>],
       [place |-> <<"C", "h", "i", "n", "a">>,
        value |-> <<PyStr(<<"C", "h", "i", "n", "a">>), PyStr(<<"C", "H", "N">>)>>],
       [place |-> <<"P", "e", "o", "p", "l", "e", "'", "s", " ", "R", "e", "p", "u", "b", "l", "i", "c", " ", "o", "f", " ", "C", "h", "i", "n", "a">>,
        value |-> <<PyStr(<<"C", "h", "i", "n", "a">>), PyStr(<<"C", "H", "N">>)>>],
       [place |-> <<"C", "h", "e", "l", "y", "a", "b", "i", "n", "s", "k", "a", "y", "a", " ", "O", "b", "l", "a", "s", "t", ",", " ", "R", "u", "s", "s", "i", "a">>,
        value |-> <<PyStr(<<"R", "u", "s", "s", "i", "a">>), PyStr(<<"R", "U", "S">>)>>],
       [place |-> <<"T", "v", "e", "r", ",", " ", "R", "u", "s", "s", "i", "a">>,
        value |-> <<PyStr(<<"R", "u", "s", "s", "i", "a">>), PyStr(<<"R", "U", "S">>)>>],
       [place |-> <<"S", "t", "a", "v", "r", "o", "p", "o", "l", ",", " ", "R", "u", "s", "s", "i", "a">>,
        value |-> <<PyStr(<<"R", "u", "s", "s", "i", "a">>), PyStr(<<"R", "U", "S">>)>>],
       [place |-> <<"N", "o", "v", "o", "c", "h", "e", "r", "k", "a", "s", "k", ",", " ", "R", "u", "s", "s", "i", "a">>,
        value |-> <<PyStr(<<"R", "u", "s", "s", "i", "a">>), PyStr(<<"R", "U", "S">>)>>],
       [place |-> <<"V", "o", "l", "z", "h", "s", "k", "i", "y", ",", " ", "V", "o", "l", "g", "o", "g", "r", "a", "d", "s", "k", "a", "y", "a", " ", "O", "b", "l", "a", "s", "t", ",", " ", "R", "u", "s", "s", "i", "a">>,
        value |-> <<PyStr(<<"R", "u", "s", "s", "i", "a">>), PyStr(<<"R", "U", "S">>)>>],
       [place |-> <<"S", "a", "i", "n", "t", " ", "P", "e", "t", "e", "r", "s", "b", "u", "r", "g", ",", " ", "R", "u", "s", "s", "i", "a">>,
        value |-> <<PyStr(<<"R", "u", "s", "s", "i", "a">>), PyStr(<<"R", "U", "S">>)>>],
       [place |-> <<"M", "u", "r", "m", "a", "n", "s", "k", "a", "y", "a", " ", "O", "b", "l", "a", "s", "t", ",", " ", "R", "u", "s", "s", "i", "a">>,
        value |-> <<PyStr(<<"R", "u", "s", "s", "i", "a">>), PyStr(<<"R", "U", "S">>)>>],
       [place |-> <<"S", "o", "s", "n", "o", "v", "k", "a", ",", " ", "R", "u", "s", "s", "i", "a">>,
        value |-> <<PyStr(<<"R", "u", "s", "s", "i", "a">>), PyStr(<<"R", "U", "S">>)>>],
       [place |-> <<"M", "o", "s", "c", "o", "w", ",", " ", "R", "u", "s", "s", "i", "a">>,
        value |-> <<PyStr(<<"R", "u", "s", "s", "i", "a">>), PyStr(<<"R", "U", "S">>)>>],
       [place |-> <<"V", "i", "l", "l", "a", "g", "e", " ", "o", "f", " ", "F", "e", "n", "i", "n", "o", ",", " ", "S", "e", "r", "p", "u", "k", "h", "o", "v", "s", "k", "o", "y", " ", "D", "i", "s", "t", "r", "i", "c", "t", ",", " ", "M", "o", "s", "c", "o", "w", " ", "O", "b", "l", "a", "s", "t", ",", " ", "R", "u", "s", "s", "i", "a">>,
        value |-> <<PyStr(<<"R", "u", "s", "s", "i", "a">>), PyStr(<<"R", "U", "S">>)>>],
       [place |-> <<"T", "o", "t", "m", "a", ",", " ", "V", "o", "l", "o", "g", "d", "a", " ", "O", "b", "l", "a", "s", "t", ",", " ", "R", "u", "s", "s", "i", "a">>,
        value |-> <<PyStr(<<"R", "u", "s", "s", "i", "a">>), PyStr(<<"R", "U", "S">>)>>],
       [place |-> <<"T", "y", "m", "o", "v", "s", "k", "o", "y", "e", ",", " ", "R", "u", "s", "s", "i", "a">>,
        value |-> <<PyStr(<<"R", "u", "s", "s", "i", "a">>), PyStr(<<"R", "U", "S">>)>>],
       [place |-> <<"L", "e", "n", "i", "n", "g", "r", "a", "d", ",", " ", "R", "u", "s", "s", "i", "a">>,
        value |-> <<PyStr(<<"R", "u", "s", "s", "i", "a">>), PyStr(<<"R", "U", "S">>)>>],
       [place |-> <<"K", "a", "l", "u", "g", "a", ",", " ", "R", "u", "s", "s", "i", "a">>,
        value |-> <<PyStr(<<"R", "u", "s", "s", "i", "a">>), PyStr(<<"R", "U", "S">>)>>],
       [place |-> <<"C", "i", "t", "y", " ", "o", "f", " ", "S", "y", "k", "t", "y", "v", "k", "a", "r", ",", " ", "R", "u", "s", "s", "i", "a">>,
        value |-> <<PyStr(<<"R", "u", "s", "s", "i", "a">>), PyStr(<<"R", "U", "S">>)>>],
       [place |-> <<"R", "a", "m", "e", "n", "s", "k", "o", "y", "e", ",", " ", "R", "u", "s", "s", "i", "a">>,
        value |-> <<PyStr(<<"R", "u", "s", "s", "i", "a">>), PyStr(<<"R", "U", "S">>)>>],
       [place |-> <<"G", "r", "o", "z", "n", "y", ",", " ", "C", "h", "e", "c", "h", "n", "y", "a", ",", " ", "R", "u", "s", "s", "i", "a">>,
        value |-> <<PyStr(<<"R", "u", "s", "s", "i", "a">>), PyStr(<<"R", "U", "S">>)>>],
       [place |-> <<"R", "o", "s", "t", "o", "v", "-", "O", "n", "-", "D", "o", "n", ",", " ", "R", "u", "s", "s", "i", "a">>,
        value |-> <<PyStr(<<"R", "u", "s", "s", "i", "a">>), PyStr(<<"R", "U", "S">>)>>],
       [place |-> <<"K", "h", "a", "b", "o", "r", "o", "v", "s", "k", ",", " ", "R", "u", "s", "s", "i", "a">>,
        value |-> <<PyStr(<<"R", "u", "s", "s", "i", "a">>), PyStr(<<"R", "U", "S">>)>>],
       [place |-> <<"O", "b", "n", "i", "n", "s", "k", ",", " ", "K", "a", "l", "u", "g", "a", " ", "O", "b", "l", "a", "s", "t", ",", " ", "R", "u", "s", "s", "i", "a">>,
        value |-> <<PyStr(<<"R", "u", "s", "s", "i", "a">>), PyStr(<<"R", "U", "S">>)>>],
       [place |-> <<"V", "o", "l", "o", "g", "d", "a", ",", " ", "R", "u", "s", "s", "i", "a">>,
        value |-> <<PyStr(<<"R", "u", "s", "s", "i", "a">>), PyStr(<<"R", "U", "S">>)>>],
       [place |-> <<"B", "r", "a", "t", "s", "k", ",", " ", "I", "r", "k", "u", "t", "s", "k", " ", "O", "b", "l", "a", "s", "t", ",", " ", "R", "u", "s", "s", "i", "a">>,
        value |-> <<PyStr(<<"R", "u", "s", "s", "i", "a">>), PyStr(<<"R", "U", "S">>)>>],
       [place |-> <<"K", "u", "r", "s", "k", ",", " ", "R", "u", "s", "s", "i", "a">>,
        value |-> <<PyStr(<<"R", "u", "s", "s", "i", "a">>), PyStr(<<"R", "U", "S">>)>>],
       [place |-> <<"Y", "o", "s", "h", "k", "a", "r", "-", "O", "l", "a", ",", " ", "R", "u", "s", "s", "i", "a">>,
        value |-> <<PyStr(<<"R", "u", "s", "s", "i", "a">>), PyStr(<<"R", "U", "S">>)>>],
       [place |-> <<"S", "t", "a", "v", "r", "o", "p", "o", "l", "s", "k", "i", "y", " ", "K", "r", "a", "y", "a", ",", " ", "R", "u", "s", "s", "i", "a">>,
        value |-> <<PyStr(<<"R", "u", "s", "s", "i", "a">>), PyStr(<<"R", "U", "S">>)>>],
       [place |-> <<"B", "o", "l", "o", "g", "o", "e", "-", "4", ",", " ", "K", "a", "l", "i", "n", "i", "n", "s", "k", "i", "y", " ", "O", "b", "l", "a", "s", "t", ",", " ", "R", "u", "s", "s", "i", "a">>,
        value |-> <<PyStr(<<"R", "u", "s", "s", "i", "a">>), PyStr(<<"R", "U", "S">>)>>],
       [place |-> <<"R", "u", "s", "s", "i", "a">>,
        value |-> <<PyStr(<<"R", "u", "s", "s", "i", "a">>), PyStr(<<"R", "U", "S">>)>>],
       [place |-> <<"R", "u", "s", "s", "i", "a", "n", " ", "F", "e", "d", "e", "r", "a", "t", "i", "o", "n">>,
        value |-> <<PyStr(<<"R", "u", "s", "s", "i", "a">>), PyStr(<<"R", "U", "S">>)>>],
       [place |-> <<"Z", "a", "b", "o", "l", ",", " ", "I", "r", "a", "n">>,
        value |-> <<PyStr(<<"I", "r", "a", "n">>), PyStr(<<"I", "R", "N">>)>>],
       [place |-> <<"T", "e", "h", "r", "a", "n", ",", " ", "I", "r", "a", "n">>,
        value |-> <<PyStr(<<"I", "r", "a", "n">>), PyStr(<<"I", "R", "N">>)>>],
       [place |-> <<"T", "a", "b", "r", "i", "z", ",", " ", "I", "r", "a", "n">>,
        value |-> <<PyStr(<<"I", "r", "a", "n">>), PyStr(<<"I", "R", "N">>)>>],
       [place |-> <<"Z", "a", "n", "j", "a", "n", ",", " ", "I", "r", "a", "n">>,
        value |-> <<PyStr(<<"I", "r", "a", "n">>), PyStr(<<"I", "R", "N">>)>>],
       [place |-> <<"U", "r", "m", "i", "a", ",", " ", "I", "r", "a", "n">>,
        value |-> <<PyStr(<<"I", "r", "a", "n">>), PyStr(<<"I", "R", "N">>)>>],
       [place |-> <<"Y", "a", "z", "d", " ", "P", "r", "o", "v", "i", "n", "c", "e", ",", " ", "I", "r", "a", "n">>,
        value |-> <<PyStr(<<"I", "r", "a", "n">>), PyStr(<<"I", "R", "N">>)>>],
       [place |-> <<"S", "a", "b", "z", "e", "v", "a", "r", ",", " ", "I", "r", "a", "n">>,
        value |-> <<PyStr(<<"I", "r", "a", "n">>), PyStr(<<"I", "R", "N">>)>>],
       [place |-> <<"T", "e", "h", "r", "a", "n", " ", "P", "r", "o", "v", "i", "n", "c", "e", ",", " ", "I", "r", "a", "n">>,
        value |-> <<PyStr(<<"I", "r", "a", "n">>), PyStr(<<"I", "R", "N">>)>>],
       [place |-> <<"K", "a", "r", "a", "j", ",", " ", "I", "r", "a", "n">>,
        value |-> <<PyStr(<<"I", "r", "a", "n">>), PyStr(<<"I", "R", "N">>)>>],
       [place |-> <<"M", "i", "a", "n", "e", "h", ",", " ", "I", "r", "a", "n">>,
        value |-> <<PyStr(<<"I", "r", "a", "n">>), PyStr(<<"I", "R", "N">>)>>],
       [place |-> <<"N", "a", "g", "h", "a", "d", "e", "h", ",", " ", "I", "r", "a", "n">>,
        value |-> <<PyStr(<<"I", "r", "a", "n">>), PyStr(<<"I", "R", "N">>)>>],
       [place |-> <<"I", "l", "a", "m", ",", " ", "I", "r", "a", "n">>,
        value |-> <<PyStr(<<"I", "r", "a", "n">>), PyStr(<<"I", "R", "N">>)>>],
       [place |-> <<"M", "a", "s", "h", "h", "a", "d", ",", " ", "I", "r", "a", "n">>,
        value |-> <<PyStr(<<"I", "r", "a", "n">>), PyStr(<<"I", "R", "N">>)>>],
       [place |-> <<"A", "r", "d", "a", "b", "i", "l", ",", " ", "I", "r", "a", "n">>,
        value |-> <<PyStr(<<"I", "r", "a", "n">>), PyStr(<<"I", "R", "N">>)>>],
       [place |-> <<"I", "r", "a", "n">>,
        value |-> <<PyStr(<<"I", "r", "a", "n">>), PyStr(<<"I", "R", "N">>)>>],
       [place |-> <<"N", "a", "y", "a", "r", "i", "t", ",", " ", "M", "e", "x", "i", "c", "o">>,
        value |-> <<PyStr(<<"M", "e", "x", "i", "c", "o">>), PyStr(<<"M", "E", "X">>)>>],
       [place |-> <<"S", "i", "n", "a", "l", "o", "a", ",", " ", "M", "e", "x", "i", "c", "o">>,
        value |-> <<PyStr(<<"M", "e", "x", "i", "c", "o">>), PyStr(<<"M", "E", "X">>)>>],
       [place |-> <<"B", "a", "j", "a", " ", "C", "a", "l", "i", "f", "o", "r", "n", "i", "a", ",", " ", "M", "e", "x", "i", "c", "o">>,
        value |-> <<PyStr(<<"M", "e", "x", "i", "c", "o">>), PyStr(<<"M", "E", "X">>)>>],
       [place |-> <<"J", "a", "l", "i", "s", "c", "o", ",", " ", "M", "e", "x", "i", "c", "o">>,
        value |-> <<PyStr(<<"M", "e", "x", "i", "c", "o">>), PyStr(<<"M", "E", "X">>)>>],
       [place |-> <<"V", "e", "r", "a", "c", "r", "u", "z", ",", " ", "M", "e", "x", "i", "c", "o">>,
        value |-> <<PyStr(<<"M", "e", "x", "i", "c", "o">>), PyStr(<<"M", "E", "X">>)>>],
       [place |-> <<"J", "e", "r", "e", "z", ",", " ", "Z", "a", "c", "a", "t", "e", "c", "a", "s", ",", " ", "M", "e", "x", "i", "c", "o">>,
        value |-> <<PyStr(<<"M", "e", "x", "i", "c", "o">>), PyStr(<<"M", "E", "X">>)>>],
       [place |-> <<"C", "h", "u", "i", "c", "o", "p", "a", ",", " ", "S", "i", "n", "a", "l", "o", "a", ",", " ", "M", "e", "x", "i", "c", "o">>,
        value |-> <<PyStr(<<"M", "e", "x", "i", "c", "o">>), PyStr(<<"M", "E", "X">>)>>],
       [place |-> <<"M", "e", "z", "q", "u", "i", "t", "a", "l", " ", "d", "e", "l", " ", "O", "r", "o", ",", " ", "Z", "a", "c", "a", "t", "e", "c", "a", "s", ",", " ", "M", "e", "x", "i", "c", "o">>,
        value |-> <<PyStr(<<"M", "e", "x", "i", "c", "o">>), PyStr(<<"M", "E", "X">>)>>],
       [place |-> <<"Z", "a", "c", "a", "t", "e", "c", "a", "s", ",", " ", "M", "e", "x", "i", "c", "o">>,
        value |-> <<PyStr(<<"M", "e", "x", "i", "c", "o">>), PyStr(<<"M", "E", "X">>)>>],
       [place |-> <<"C", "o", "l", "i", "m", "a", ",", " ", "M", "e", "x", "i", "c", "o">>,
        value |-> <<PyStr(<<"M", "e", "x", "i", "c", "o">>), PyStr(<<"M", "E", "X">>)>>],
       [place |-> <<"M", "e", "x", "i", "c", "o", " ", "C", "i", "t", "y", ",", " ", "M", "e", "x", "i", "c", "o">>,
        value |-> <<PyStr(<<"M", "e", "x", "i", "c", "o">>), PyStr(<<"M", "E", "X">>)>>],
       [place |-> <<"H", "i", "d", "a", "l", "g", "o", ",", " ", "M", "e", "x", "i", "c", "o">>,
        value |-> <<PyStr(<<"M", "e", "x", "i", "c", "o">>), PyStr(<<"M", "E", "X">>)>>],
       [place |-> <<"D", "u", "r", "a", "n", "g", "o", ",", " ", "M", "e", "x", "i", "c", "o">>,
        value |-> <<PyStr(<<"M", "e", "x", "i", "c", "o">>), PyStr(<<"M", "E", "X">>)>>],
       [place |-> <<"M", "e", "x", "i", "c", "o">>,
        value |-> <<PyStr(<<"M", "e", "x", "i", "c", "o">>), PyStr(<<"M", "E", "X">>)>>],
       [place |-> <<"J", "u", "c", "u", "a", "r", "a", "n", ",", " ", "U", "s", "u", "l", "u", "t", "a", "n", ",", " ", "E", "l", " ", "S", "a", "l", "v", "a", "d", "o", "r">>,
        value |-> <<PyStr(<<"E", "l", " ", "S", "a", "l", "v", "a", "d", "o", "r">>), PyStr(<<"S", "L", "V">>)>>],
       [place |-> <<"S", "a", "n", " ", "F", "r", "a", "n", "c", "i", "s", "c", "o", " ", "M", "e", "n", "e", "n", "d", "e", "z", ",", " ", "A", "h", "u", "a", "c", "h", "a", "p", "a", "n", ",", " ", "E", "l", " ", "S", "a", "l", "v", "a", "d", "o", "r">>,
        value |-> <<PyStr(<<"E", "l", " ", "S", "a", "l", "v", "a", "d", "o", "r">>), PyStr(<<"S", "L", "V">>)>>],
       [place |-> <<"S", "a", "n", " ", "S", "a", "l", "v", "a", "d", "o", "r", ",", " ", "S", "a", "n", " ", "S", "a", "l", "v", "a", "d", "o", "r", ",", " ", "E", "l", " ", "S", "a", "l", "v", "a", "d", "o", "r">>,
        value |-> <<PyStr(<<"E", "l", " ", "S", "a", "l", "v", "a", "d", "o", "r">>), PyStr(<<"S", "L", "V">>)>>],
       [place |-> <<"O", "z", "a", "t", "l", "a", "n", ",", " ", "U", "s", "u", "l", "u", "t", "a", "n", ",", " ", "E", "l", " ", "S", "a", "l", "v", "a", "d", "o", "r">>,
        value |-> <<PyStr(<<"E", "l", " ", "S", "a", "l", "v", "a", "d", "o", "r">>), PyStr(<<"S", "L", "V">>)>>],
       [place |-> <<"A", "h", "u", "a", "c", "h", "a", "p", "a", "n", ",", " ", "A", "h", "u", "a", "c", "h", "a", "p", "a", "n", ",", " ", "E", "l", " ", "S", "a", "l", "v", "a", "d", "o", "r">>,
        value |-> <<PyStr(<<"E", "l", " ", "S", "a", "l", "v", "a", "d", "o", "r">>), PyStr(<<"S", "L", "V">>)>>],
       [place |-> <<"T", "e", "j", "u", "t", "l", "a", ",", " ", "C", "h", "a", "l", "a", "t", "e", "n", "a", "n", "g", "o", ",", " ", "E", "l", " ", "S", "a", "l", "v", "a", "d", "o", "r">>,
        value |-> <<PyStr(<<"E", "l", " ", "S", "a", "l", "v", "a", "d", "o", "r">>), PyStr(<<"S", "L", "V">>)>>],
       [place |-> <<"C", "u", "s", "c", "a", "t", "a", "n", "c", "i", "n", "g", "o", ",", " ", "S", "a", "n", " ", "S", "a", "l", "v", "a", "d", "o", "r", ",", " ", "E", "l", " ", "S", "a", "l", "v", "a", "d", "o", "r">>,
        value |-> <<PyStr(<<"E", "l", " ", "S", "a", "l", "v", "a", "d", "o", "r">>), PyStr(<<"S", "L", "V">>)>>],
       [place |-> <<"U", "s", "u", "l", "u", "t", "a", "n", ",", " ", "U", "s", "u", "l", "u", "t", "a", "n", ",", " ", "E", "l", " ", "S", "a", "l", "v", "a", "d", "o", "r">>,
        value |-> <<PyStr(<<"E", "l", " ", "S", "a", "l", "v", "a", "d", "o", "r">>), PyStr(<<"S", "L", "V">>)>>],
       [place |-> <<"E", "l", " ", "S", "a", "l", "v", "a", "d", "o", "r">>,
        value |-> <<PyStr(<<"E", "l", " ", "S", "a", "l", "v", "a", "d", "o", "r">>), PyStr(<<"S", "L", "V">>)>>],
       [place |-> <<"P", "y", "o", "n", "g", "y", "a", "n", "g", ",", " ", "N", "o", "r", "t", "h", " ", "K", "o", "r", "e", "a">>,
        value |-> <<PyStr(<<"N", "o", "r", "t", "h", " ", "K", "o", "r", "e", "a">>), PyStr(<<"P", "R", "K">>)>>],
       [place |-> <<"D", "e", "m", "o", "c", "r", "a", "t", "i", "c", " ", "P", "e", "o", "p", "l", "e", "'", "s", " ", "R", "e", "p", "u", "b", "l", "i", "c", " ", "o", "f", " ", "K", "o", "r", "e", "a", " ", "(", "N", "o", "r", "t", "h", " ", "K", "o", "r", "e", "a", ")">>,
        value |-> <<PyStr(<<"N", "o", "r", "t", "h", " ", "K", "o", "r", "e", "a">>), PyStr(<<"P", "R", "K">>)>>],
       [place |-> <<"K", "r", "y", "v", "y", "i", " ", "R", "i", "h", ",", " ", "D", "n", "i", "p", "r", "o", "p", "e", "t", "r", "o", "v", "s", "k", " ", "O", "b", "l", "a", "s", "t", ",", " ", "U", "k", "r", "a", "i", "n", "e">>,
        value |-> <<PyStr(<<"U", "k", "r", "a", "i", "n", "e">>), PyStr(<<"U", "K", "R">>)>>],
       [place |-> <<"K", "y", "i", "v", ",", " ", "U", "k", "r", "a", "i", "n", "e">>,
        value |-> <<PyStr(<<"U", "k", "r", "a", "i", "n", "e">>), PyStr(<<"U", "K", "R">>)>>],
       [place |-> <<"K", "i", "e", "v", ",", " ", "U", "k", "r", "a", "i", "n", "e">>,
        value |-> <<PyStr(<<"U", "k", "r", "a", "i", "n", "e">>), PyStr(<<"U", "K", "R">>)>>],
       [place |-> <<"B", "o", "r", "y", "s", "p", "i", "l", ",", " ", "K", "y", "i", "v", " ", "O", "b", "l", "a", "s", "t", ",", " ", "U", "k", "r", "a", "i", "n", "e">>,
        value |-> <<PyStr(<<"U", "k", "r", "a", "i", "n", "e">>), PyStr(<<"U", "K", "R">>)>>],
       [place |-> <<"U", "k", "r", "a", "i", "n", "e">>,
        value |-> <<PyStr(<<"U", "k", "r", "a", "i", "n", "e">>), PyStr(<<"U", "K", "R">>)>>],
       [place |-> <<"H", "o", "m", "s", ",", " ", "S", "y", "r", "i", "a">>,
        value |-> <<PyStr(<<"S", "y", "r", "i", "a">>), PyStr(<<"S", "Y", "R">>)>>],
       [place |-> <<"D", "a", "m", "a", "s", "c", "u", "s", ",", " ", "S", "y", "r", "i", "a">>,
        value |-> <<PyStr(<<"S", "y", "r", "i", "a">>), PyStr(<<"S", "Y", "R">>)>>],
       [place |-> <<"A", "l", "l", "e", "p", "o", ",", " ", "S", "y", "r", "i", "a">>,
        value |-> <<PyStr(<<"S", "y", "r", "i", "a">>), PyStr(<<"S", "Y", "R">>)>>],
       [place |-> <<"S", "y", "r", "i", "a">>,
        value |-> <<PyStr(<<"S", "y", "r", "i", "a">>), PyStr(<<"S", "Y", "R">>)>>],
       [place |-> <<"S", "a", "n", " ", "J", "u", "a", "n", ",", " ", "P", "u", "e", "r", "t", "o", " ", "R", "i", "c", "o">>,
        value |-> <<PyStr(<<"P", "u", "e", "r", "t", "o", " ", "R", "i", "c", "o">>), PyStr(<<"P", "R", "I">>)>>],
       [place |-> <<"L", "a", "j", "a", "s", ",", " ", "P", "u", "e", "r", "t", "o", " ", "R", "i", "c", "o">>,
        value |-> <<PyStr(<<"P", "u", "e", "r", "t", "o", " ", "R", "i", "c", "o">>), PyStr(<<"P", "R", "I">>)>>],
       [place |-> <<"A", "g", "u", "a", "d", "a", ",", " ", "P", "u", "e", "r", "t", "o", " ", "R", "i", "c", "o">>,
        value |-> <<PyStr(<<"P", "u", "e", "r", "t", "o", " ", "R", "i", "c", "o">>), PyStr(<<"P", "R", "I">>)>>],
       [place |-> <<"P", "a", "k", "i", "s", "t", "a", "n">>,
        value |-> <<PyStr(<<"P", "a", "k", "i", "s", "t", "a", "n">>), PyStr(<<"P", "A", "K">>)>>],
       [place |-> <<"P", "r", "a", "n", "p", "u", "r", "a", ",", " ", "H", "a", "r", "y", "a", "n", "a", ",", " ", "I", "n", "d", "i", "a">>,
        value |-> <<PyStr(<<"I", "n", "d", "i", "a">>), PyStr(<<"I", "N", "D">>)>>],
       [place |-> <<"H", "y", "d", "e", "r", "a", "b", "a", "d", ",", " ", "P", "a", "k", "i", "s", "t", "a", "n">>,
        value |-> <<PyStr(<<"P", "a", "k", "i", "s", "t", "a", "n">>), PyStr(<<"P", "A", "K">>)>>],
       [place |-> <<"K", "a", "r", "a", "c", "h", "i", ",", " ", "P", "a", "k", "i", "s", "t", "a", "n">>,
        value |-> <<PyStr(<<"P", "a", "k", "i", "s", "t", "a", "n">>), PyStr(<<"P", "A", "K">>)>>],
       [place |-> <<"I", "n", "d", "i", "a">>,
        value |-> <<PyStr(<<"I", "n", "d", "i", "a">>), PyStr(<<"I", "N", "D">>)>>],
       [place |-> <<"H", "o", "n", "d", "u", "r", "a", "s">>,
        value |-> <<PyStr(<<"H", "o", "n", "d", "u", "r", "a", "s">>), PyStr(<<"H", "N", "D">>)>>],
       [place |-> <<"A", "t", "l", "a", "n", "t", "i", "d", "a", ",", " ", "H", "o", "n", "d", "u", "r", "a", "s">>,
        value |-> <<PyStr(<<"H", "o", "n", "d", "u", "r", "a", "s">>), PyStr(<<"H", "N", "D">>)>>],
       [place |-> <<"C", "o", "p", "a", "n", ",", " ", "H", "o", "n", "d", "u", "r", "a", "s">>,
        value |-> <<PyStr(<<"H", "o", "n", "d", "u", "r", "a", "s">>), PyStr(<<"H", "N", "D">>)>>],
       [place |-> <<"C", "a", "m", "b", "o", "d", "i", "a">>,
        value |-> <<PyStr(<<"C", "a", "m", "b", "o", "d", "i", "a">>), PyStr(<<"K", "H", "M">>)>>],
       [place |-> <<"U", "z", "b", "e", "k", "i", "s", "t", "a", "n">>,
        value |-> <<PyStr(<<"U", "z", "b", "e", "k", "i", "s", "t", "a", "n">>), PyStr(<<"U", "Z", "B">>)>>],
       [place |-> <<"T", "o", "y", " ", "T", "e", "i", "p", "a", ",", " ", "U", "z", "b", "e", "k", "i", "s", "t", "a", "n">>,
        value |-> <<PyStr(<<"U", "z", "b", "e", "k", "i", "s", "t", "a", "n">>), PyStr(<<"U", "Z", "B">>)>>],
       [place |-> <<"H", "a", "i", "t", "i">>,
        value |-> <<PyStr(<<"H", "a", "i", "t", "i">>), PyStr(<<"H", "T", "I">>)>>],
       [place |-> <<"N", "i", "g", "e", "r", "i", "a">>,
        value |-> <<PyStr(<<"N", "i", "g", "e", "r", "i", "a">>), PyStr(<<"N", "G", "A">>)>>],
       [place |-> <<"M", "i", "n", "s", "k", ",", " ", "B", "e", "l", "a", "r", "u", "s">>,
        value |-> <<PyStr(<<"B", "e", "l", "a", "r", "u", "s">>), PyStr(<<"B", "L", "R">>)>>],
       [place |-> <<"J", "a", "m", "a", "i", "c", "a">>,
        value |-> <<PyStr(<<"J", "a", "m", "a", "i", "c", "a">>), PyStr(<<"J", "A", "M">>)>>],
       [place |-> <<"S", "a", "n", "t", "i", "a", "g", "o", ",", " ", "D", "o", "m", "i", "n", "i", "c", "a", "n", " ", "R", "e", "p", "u", "b", "l", "i", "c">>,
        value |-> <<PyStr(<<"D", "o", "m", "i", "n", "i", "c", "a", "n", " ", "R", "e", "p", "u", "b", "l", "i", "c">>), PyStr(<<"D", "O", "M">>)>>],
       [place |-> <<"D", "o", "m", "i", "n", "i", "c", "a", "n", " ", "R", "e", "p", "u", "b", "l", "i", "c">>,
        value |-> <<PyStr(<<"D", "o", "m", "i", "n", "i", "c", "a", "n", " ", "R", "e", "p", "u", "b", "l", "i", "c">>), PyStr(<<"D", "O", "M">>)>>],
       [place |-> <<"L", "a", " ", "C", "a", "l", "e", "r", "a", ",", " ", "C", "h", "i", "l", "e">>,
        value |-> <<PyStr(<<"C", "h", "i", "l", "e">>), PyStr(<<"C", "H", "L">>)>>],
       [place |-> <<"L", "a", "G", "u", "a", "i", "r", "a", ",", " ", "V", "e", "n", "e", "z", "u", "e", "l", "a">>,
        value |-> <<PyStr(<<"V", "e", "n", "e", "z", "u", "e", "l", "a">>), PyStr(<<"V", "E", "N">>)>>],
       [place |-> <<"V", "e", "n", "e", "z", "u", "e", "l", "a">>,
        value |-> <<PyStr(<<"V", "e", "n", "e", "z", "u", "e", "l", "a">>), PyStr(<<"V", "E", "N">>)>>],
       [place |-> <<"B", "a", "n", "g", "l", "a", "d", "e", "s", "h">>,
        value |-> <<PyStr(<<"B", "a", "n", "g", "l", "a", "d", "e", "s", "h">>), PyStr(<<"B", "G", "D">>)>>],
       [place |-> <<"R", "i", "g", "a", ",", " ", "L", "a", "t", "v", "i", "a">>,
        value |-> <<PyStr(<<"L", "a", "t", "v", "i", "a">>), PyStr(<<"L", "V", "A">>)>>],
       [place |-> <<"V", "i", "e", "t", "n", "a", "m">>,
        value |-> <<PyStr(<<"V", "i", "e", "t", "n", "a", "m">>), PyStr(<<"V", "N", "M">>)>>],
       [place |-> <<"R", "e", "p", "u", "b", "l", "i", "c", " ", "o", "f", " ", "V", "i", "e", "t", "n", "a", "m">>,
        value |-> <<PyStr(<<"V", "i", "e", "t", "n", "a", "m">>), PyStr(<<"V", "N", "M">>)>>],
       [place |-> <<"M", "o", "n", "g", " ", "C", "a", "i", ",", " ", "Q", "u", "a", "n", "g", " ", "N", "i", "n", "h", " ", "P", "r", "o", "v", "i", "n", "c", "e", ",", " ", "N", "o", "r", "t", "h", " ", "V", "i", "e", "t", "n", "a", "m">>,
        value |-> <<PyStr(<<"V", "i", "e", "t", "n", "a", "m">>), PyStr(<<"V", "N", "M">>)>>],
       [place |-> <<"Q", "u", "a", "n", "g", " ", "B", "i", "n", "h", " ", "P", "r", "o", "v", "i", "n", "c", "e", ",", " ", "V", "i", "e", "t", "n", "a", "m">>,
        value |-> <<PyStr(<<"V", "i", "e", "t", "n", "a", "m">>), PyStr(<<"V", "N", "M">>)>>],
       [place |-> <<"S", "w", "e", "d", "e", "n">>,
        value |-> <<PyStr(<<"S", "w", "e", "d", "e", "n">>), PyStr(<<"S", "W", "E">>)>>],
       [place |-> <<"C", "a", "n", "a", "d", "a">>,
        value |-> <<PyStr(<<"C", "a", "n", "a", "d", "a">>), PyStr(<<"C", "A", "N">>)>>],
       [place |-> <<"B", "e", "l", " ", "O", "m", "b", "r", "e", ",", " ", "M", "a", "h", "e", " ", "I", "s", "l", "a", "n", "d", ",", " ", "S", "e", "y", "c", "h", "e", "l", "l", "e", "s">>,
        value |-> <<PyStr(<<"S", "e", "y", "c", "h", "e", "l", "l", "e", "s">>), PyStr(<<"S", "Y", "C">>)>>],
       [place |-> <<"S", "p", "a", "i", "n">>,
        value |-> <<PyStr(<<"S", "p", "a", "i", "n">>), PyStr(<<"E", "S", "P">>)>>],
       [place |-> <<"C", "u", "b", "a">>,
        value |-> <<PyStr(<<"C", "u", "b", "a">>), PyStr(<<"C", "U", "B">>)>>],
       [place |-> <<"T", "u", "r", "k", "e", "y">>,
        value |-> <<PyStr(<<"T", "u", "r", "k", "e", "y">>), PyStr(<<"T", "U", "R">>)>>],
       [place |-> <<"A", "r", "m", "e", "n", "i", "a">>,
        value |-> <<PyStr(<<"A", "r", "m", "e", "n", "i", "a">>), PyStr(<<"A", "R", "M">>)>>],
       [place |-> <<"G", "h", "a", "n", "a">>,
        value |-> <<PyStr(<<"G", "h", "a", "n", "a">>), PyStr(<<"G", "H", "A">>)>>],
       [place |-> <<"E", "c", "u", "a", "d", "o", "r">>,
        value |-> <<PyStr(<<"E", "c", "u", "a", "d", "o", "r">>), PyStr(<<"E", "C", "U">>)>>],
       [place |-> <<"G", "u", "a", "y", "a", "q", "u", "i", "l", ",", " ", "E", "c", "u", "a", "d", "o", "r">>,
        value |-> <<PyStr(<<"E", "c", "u", "a", "d", "o", "r">>), PyStr(<<"E", "C", "U">>)>>],
       [place |-> <<"B", "r", "a", "z", "i", "l">>,
        value |-> <<PyStr(<<"B", "r", "a", "z", "i", "l">>), PyStr(<<"B", "R", "A">>)>>],
       [place |-> <<"L", "a", "o", "s">>,
        value |-> <<PyStr(<<"L", "a", "o", "s">>), PyStr(<<"L", "A", "O">>)>>],
       [place |-> <<"P", "h", "i", "l", "i", "p", "p", "i", "n", "e", "s">>,
        value |-> <<PyStr(<<"P", "h", "i", "l", "i", "p", "p", "i", "n", "e", "s">>), PyStr(<<"P", "H", "L">>)>>],
       [place |-> <<"I", "l", "o", "c", "o", "s", " ", "N", "o", "r", "t", "e", ",", " ", "P", "h", "i", "l", "i", "p", "p", "i", "n", "e", "s">>,
        value |-> <<PyStr(<<"P", "h", "i", "l", "i", "p", "p", "i", "n", "e", "s">>), PyStr(<<"P", "H", "L">>)>>],
       [place |-> <<"G", "e", "r", "m", "a", "n", "y">>,
        value |-> <<PyStr(<<"G", "e", "r", "m", "a", "n", "y">>), PyStr(<<"D", "E", "U">>)>>],
       [place |-> <<"S", "y", "d", "n", "e", "y", ",", " ", "A", "u", "s", "t", "r", "a", "l", "i", "a">>,
        value |-> <<PyStr(<<"A", "u", "s", "t", "r", "a", "l", "i", "a">>), PyStr(<<"A", "U", "S">>)>>],
       [place |-> <<"S", "u", "m", "q", "a", "y", "i", "t", ",", " ", "A", "z", "e", "r", "b", "a", "i", "j", "a", "n">>,
        value |-> <<PyStr(<<"A", "z", "e", "r", "b", "a", "i", "j", "a", "n">>), PyStr(<<"A", "Z", "E">>)>>],
       [place |-> <<"M", "u", "s", "c", "a", "t", ",", " ", "O", "m", "a", "n">>,
        value |-> <<PyStr(<<"O", "m", "a", "n">>), PyStr(<<"O", "M", "N">>)>>],
       [place |-> <<"U", "n", "i", "t", "e", "d", " ", "K", "i", "n", "g", "d", "o", "m">>,
        value |-> <<PyStr(<<"U", "n", "i", "t", "e", "d", " ", "K", "i", "n", "g", "d", "o", "m">>), PyStr(<<"G", "B", "R">>)>>],
       [place |-> <<"B", "a", "t", "r", "o", "u", "n", ",", " ", "L", "e", "b", "a", "n", "o", "n">>,
        value |-> <<PyStr(<<"L", "e", "b", "a", "n", "o", "n">>), PyStr(<<"L", "B", "N">>)>>],
       [place |-> <<"G", "u", "a", "t", "e", "m", "a", "l", "a">>,
        value |-> <<PyStr(<<"G", "u", "a", "t", "e", "m", "a", "l", "a">>), PyStr(<<"G", "T", "M">>)>>],
       [place |-> <<"U", "n", "k", "n", "o", "w", "n">>,
        value |-> <<None, None>>],
       [place |-> <<>>,
        value |-> <<None, None>>]
    >>

\* the lookup on the text as given, without str.strip()
LookupUnstripped(x) ==
    IF x.k = "list" THEN Raised
    ELSE IF IsBlank(x) THEN <<None, None>>
    ELSE IF \E i \in DOMAIN BIRTH_PLACE_MAPPING : BIRTH_PLACE_MAPPING[i].place = x.v
         THEN BIRTH_PLACE_MAPPING[CHOOSE i \in DOMAIN BIRTH_PLACE_MAPPING :
                                      BIRTH_PLACE_MAPPING[i].place = x.v].value
         ELSE <<PyStr(x.v), None>>

extract_country_from_birth_place(x) ==
    IF x.k = "list" THEN Raised
    ELSE IF IsBlank(x) THEN <<None, None>>
    ELSE LET place == Strip(x.v)
         IN  IF \E i \in DOMAIN BIRTH_PLACE_MAPPING : BIRTH_PLACE_MAPPING[i].place = place
             THEN BIRTH_PLACE_MAPPING[CHOOSE i \in DOMAIN BIRTH_PLACE_MAPPING :
                                          BIRTH_PLACE_MAPPING[i].place = place].value
             ELSE <<PyStr(place), None>>

-----------------------------------------------------------------------------
(* DataFrames: the column names in order, and one function per row *)

Frame(columns, rows) == [columns |-> columns, rows |-> rows]

Has(seq, x) == \E i \in DOMAIN seq : seq[i] = x
ColumnSet(df) == {df.columns[i] : i \in DOMAIN df.columns}

RECURSIVE Without(_, _)
Without(seq, x) ==
    IF seq = <<>> THEN <<>>
    ELSE (IF Head(seq) = x THEN <<>> ELSE <<Head(seq)>>) \o Without(Tail(seq), x)

\* df[c].apply(f): Raised when f raises on a cell
Apply(df, c, f(_)) == [i \in DOMAIN df.rows |-> f(df.rows[i][c])]
AnyRaised(vals) == \E i \in DOMAIN vals : vals[i] = Raised

\* df[c] = vals: in place when the column exists, else a new last column
SetColumn(df, c, vals) ==
    Frame(IF Has(df.columns, c) THEN df.columns ELSE Append(df.columns, c),
          [i \in DOMAIN df.rows |->
              [x \in ColumnSet(df) \cup {c} |-> IF x = c THEN vals[i] ELSE df.rows[i][x]]])

\* df.drop(columns=[c], inplace=True)
DropColumn(df, c) ==
    Frame(Without(df.columns, c),
          [i \in DOMAIN df.rows |-> [x \in ColumnSet(df) \ {c} |-> df.rows[i][x]]])

-----------------------------------------------------------------------------
(* The stages of clean_dataframe.  Each takes the frame and gives the frame it
   returns, or Raised when a parser raised: no stage has a try. *)

process_aliases(df) ==
    IF Has(df.columns, "alias")
    THEN LET counts == Apply(df, "alias", count_aliases)
         IN  IF AnyRaised(counts) THEN Raised ELSE SetColumn(df, "alias_count", counts)
    ELSE df

dob_labels == <<"Date(s) of Birth Used", "Date of Birth", "DOB">>

\* next((c for c in [...] if c in df.columns), None)
dob_col(df) ==
    IF \E i \in DOMAIN dob_labels : Has(df.columns, dob_labels[i])
    THEN dob_labels[CHOOSE i \in DOMAIN dob_labels :
                       /\ Has(df.columns, dob_labels[i])
                       /\ \A j \in 1 .. i - 1 : ~Has(df.columns, dob_labels[j])]
    ELSE "None"

\* a variant of process_dates_and_ages: the rows whose birth date cannot be
\* read are dropped
DatesDropMissing(df) ==
    IF dob_col(df) # "None"
    THEN LET Dated(row) == parse_date(row[dob_col(df)]) \notin {None, Raised}
         IN  Frame(df.columns, SelectSeq(df.rows, Dated))
    ELSE df

process_dates_and_ages(df) ==
    IF dob_col(df) # "None"
    THEN LET dates == Apply(df, dob_col(df), parse_date)
             df1 == SetColumn(df, dob_col(df), dates)
             df2 == SetColumn(df1, "age_years", Apply(df1, dob_col(df), LAMBDA b : compute_age(b, TODAY)))
         IN  IF AnyRaised(dates) THEN Raised
             ELSE SetColumn(df2, "zodiac_sign", Apply(df2, dob_col(df), zodiac_sign))
    ELSE df

process_occupations(df) ==
    IF Has(df.columns, "Occupation")
    THEN LET cats == Apply(df, "Occupation", categorize_occupation)
         IN  IF AnyRaised(cats) THEN Raised ELSE SetColumn(df, "occupation_category", cats)
    ELSE df

process_birth_places(df) ==
    IF Has(df.columns, "Place of Birth")
    THEN LET country_data == Apply(df, "Place of Birth", extract_country_from_birth_place)
             df1 == SetColumn(df, "birth_country",
                              [i \in DOMAIN country_data |-> country_data[i][1]])
         IN  IF AnyRaised(country_data) THEN Raised
             ELSE SetColumn(df1, "birth_country_code",
                            [i \in DOMAIN country_data |-> country_data[i][2]])
    ELSE df

process_languages(df) ==
    IF Has(df.columns, "Languages")
    THEN LET lang_split == Apply(df, "Languages", split_languages)
             df1 == SetColumn(df, "Language_1", [i \in DOMAIN lang_split |-> lang_split[i][1]])
             df2 == SetColumn(df1, "Language_2", [i \in DOMAIN lang_split |-> lang_split[i][2]])
         IN  IF AnyRaised(lang_split) THEN Raised
             ELSE SetColumn(df2, "Language_3", [i \in DOMAIN lang_split |-> lang_split[i][3]])
    ELSE df

process_hair_color(df) ==
    IF Has(df.columns, "Hair")
    THEN LET colors == Apply(df, "Hair", extract_first_hair_color)
         IN  IF AnyRaised(colors) THEN Raised ELSE SetColumn(df, "hair_color", colors)
    ELSE df

HeightStep(df) ==
    IF Has(df.columns, "Height")
    THEN LET heights == Apply(df, "Height", parse_height_to_cm)
         IN  IF AnyRaised(heights) THEN Raised ELSE SetColumn(df, "height_cm", heights)
    ELSE df

WeightStep(df) ==
    IF Has(df.columns, "Weight")
    THEN LET weights == Apply(df, "Weight", parse_weight_to_kg)
         IN  IF AnyRaised(weights) THEN Raised ELSE SetColumn(df, "weight_kg", weights)
    ELSE df

process_physical_measurements(df) ==
    IF HeightStep(df) = Raised THEN Raised ELSE WeightStep(HeightStep(df))

MarkStep(df) ==
    IF Has(df.columns, "Scars and Marks")
    THEN LET marks == Apply(df, "Scars and Marks", detect_scars_marks)
         IN  IF AnyRaised(marks) THEN Raised ELSE SetColumn(df, "has_mark", marks)
    ELSE df

CautionStep(df) ==
    IF Has(df.columns, "caution")
    THEN LET cautions == Apply(df, "caution", detect_dollar_amounts)
         IN  IF AnyRaised(cautions) THEN Raised ELSE SetColumn(df, "has_caution", cautions)
    ELSE df

process_marks_and_caution(df) ==
    IF MarkStep(df) = Raised THEN Raised ELSE CautionStep(MarkStep(df))

cols_to_drop ==
    <<"image_url", "remarks", "race", "Race", "caution", "Height", "Weight",
      "Scars and Marks", "Build", "Citizenship", "Complexion", "Age",
      "Languages", "Occupation", "Place of Birth", "Hair">>

RECURSIVE DropFrom(_, _)
DropFrom(df, i) ==
    IF i > Len(cols_to_drop) THEN df
    ELSE DropFrom(IF Has(df.columns, cols_to_drop[i]) THEN DropColumn(df, cols_to_drop[i])
                  ELSE df, i + 1)

remove_unused_columns(df) == DropFrom(df, 1)

rename_map ==
    << <<"Date(s) of Birth Used", "date_of_birth">>, <<"Eyes", "eye_color">>,
       <<"Sex", "sex">>, <<"Nationality", "nationality">>, <<"NCIC", "ncic_number">>,
       <<"alias", "alias_text">>, <<"field_office", "fbi_field_office">>,
       <<"Language_1", "language_primary">>, <<"Language_2", "language_secondary">>,
       <<"Language_3", "language_tertiary">> >>

Renamed(c) ==
    IF \E i \in DOMAIN rename_map : rename_map[i][1] = c
    THEN rename_map[CHOOSE i \in DOMAIN rename_map : rename_map[i][1] = c][2]
    ELSE c

OldName(df, n) == CHOOSE c \in ColumnSet(df) : Renamed(c) = n

\* df.rename(columns=rename_map); the labels of the model never carry a column
\* under a name another column is renamed to
Rename(df) ==
    Frame([i \in DOMAIN df.columns |-> Renamed(df.columns[i])],
          [i \in DOMAIN df.rows |->
              [n \in {Renamed(c) : c \in ColumnSet(df)} |-> df.rows[i][OldName(df, n)]]])

column_order ==
    <<"url", "name", "alias_text", "alias_count", "ncic_number", "category",
      "date_of_birth", "age_years", "zodiac_sign", "sex", "nationality",
      "birth_country", "birth_country_code",
      "height_cm", "weight_kg", "eye_color", "hair_color", "has_mark",
      "language_primary", "language_secondary", "language_tertiary",
      "occupation_category",
      "fbi_field_office", "has_caution">>

\* [col for col in seq if keep(col)]
RECURSIVE Filter(_, _)
Filter(seq, keep) ==
    IF seq = <<>> THEN <<>>
    ELSE (IF Head(seq) \in keep THEN <<Head(seq)>> ELSE <<>>) \o Filter(Tail(seq), keep)

\* the columns as the frame has them, not reordered
ColumnsAsGiven(df) == df.columns

\* the existing columns of column_order, then every other column as it comes
Reordered(df) ==
    LET known == Filter(column_order, ColumnSet(df))
    IN  known \o Filter(df.columns, ColumnSet(df) \ {known[i] : i \in DOMAIN known})

\* the frame with its columns left where they are
SelectNothing(df, order) == df

\* df[column_order]
Select(df, order) == Frame(order, df.rows)

rename_and_reorganize_columns(df) == Select(Rename(df), Reordered(Rename(df)))

-----------------------------------------------------------------------------
(* Profiles, as extract_profile_data builds them: a dict is its items in order *)

Dict(items) == [k |-> "dict", items |-> items]

\* a profile with an empty description table
ProfilePlain ==
    << <<"url", None>>,
       <<"category", PyStr(<<"m", "u", "r", "d", "e", "r", "s">>)>>,
       <<"name", PyStr(<<"A">>)>>,
       <<"alias", None>>,
       <<"image_url", PyStr(<<"i", ".", "j", "p", "g">>)>>,
       <<"description", Dict(<<>>)>>,
       <<"remarks", None>>,
       <<"caution", None>>,
       <<"field_office", PyStr(<<"M", "i", "a", "m", "i">>)>> >>

\* aliases, a reward, a birth date, an occupation and marks
ProfileFull ==
    << <<"url", None>>,
       <<"category", PyStr(<<"m", "u", "r", "d", "e", "r", "s">>)>>,
       <<"name", PyStr(<<"A">>)>>,
       <<"alias", PyStr(<<"J", "o", "h", "n", " ", "D", "o", "e", " ", "a", "/", "k", "/", "a", " ", "J", "o", "h", "n", "n", "y", ",", " ", "J", "D">>)>>,
       <<"image_url", PyStr(<<"i", ".", "j", "p", "g">>)>>,
       <<"description", Dict(<<<<"Date(s) of Birth Used", PyStr(<<"A", "p", "r", "i", "l", " ", "1", "3", ",", " ", "1", "9", "6", "1">>)>>, <<"Occupation", PyStr(<<"A", "r", "m", "y", " ", "o", "f", "f", "i", "c", "e", "r">>)>>, <<"Scars and Marks", PyStr(<<"T", "a", "t", "t", "o", "o", " ", "o", "n", " ", "a", "r", "m">>)>>>>)>>,
       <<"remarks", None>>,
       <<"caution", PyStr(<<"R", "e", "w", "a", "r", "d", " ", "o", "f", " ", "$", "5", ",", "0", "0", "0">>)>>,
       <<"field_office", PyStr(<<"M", "i", "a", "m", "i">>)>> >>

\* a birth date with a two-digit year under the label Date of Birth
ProfileShortYear ==
    << <<"url", None>>,
       <<"category", PyStr(<<"m", "u", "r", "d", "e", "r", "s">>)>>,
       <<"name", PyStr(<<"A">>)>>,
       <<"alias", None>>,
       <<"image_url", PyStr(<<"i", ".", "j", "p", "g">>)>>,
       <<"description", Dict(<<<<"Date of Birth", PyStr(<<"0", "4", "/", "1", "3", "/", "6", "1">>)>>>>)>>,
       <<"remarks", None>>,
       <<"caution", None>>,
       <<"field_office", PyStr(<<"M", "i", "a", "m", "i">>)>> >>

\* two of the birth-date labels at once
ProfileTwoBirthLabels ==
    << <<"url", None>>,
       <<"category", PyStr(<<"m", "u", "r", "d", "e", "r", "s">>)>>,
       <<"name", PyStr(<<"A">>)>>,
       <<"alias", None>>,
       <<"image_url", PyStr(<<"i", ".", "j", "p", "g">>)>>,
       <<"description", Dict(<<<<"Date(s) of Birth Used", PyStr(<<"A", "p", "r", "i", "l", " ", "1", "3", ",", " ", "1", "9", "6", "1">>)>>, <<"Date of Birth", PyStr(<<"1", "9", "7", "0", "-", "0", "1", "-", "0", "2">>)>>>>)>>,
       <<"remarks", None>>,
       <<"caution", None>>,
       <<"field_office", PyStr(<<"M", "i", "a", "m", "i">>)>> >>

\* height, weight, hair and languages
ProfilePhysical ==
    << <<"url", None>>,
       <<"category", PyStr(<<"m", "u", "r", "d", "e", "r", "s">>)>>,
       <<"name", PyStr(<<"A">>)>>,
       <<"alias", None>>,
       <<"image_url", PyStr(<<"i", ".", "j", "p", "g">>)>>,
       <<"description", Dict(<<<<"Height", PyStr(<<"5", "'", "1", "1", "\"">>)>>, <<"Weight", PyStr(<<"1", "6", "0", " ", "l", "b", "s">>)>>, <<"Hair", PyStr(<<"B", "r", "o", "w", "n", "/", "B", "l", "a", "c", "k">>)>>, <<"Languages", PyStr(<<"E", "n", "g", "l", "i", "s", "h", ",", " ", "S", "p", "a", "n", "i", "s", "h">>)>>>>)>>,
       <<"remarks", None>>,
       <<"caution", None>>,
       <<"field_office", PyStr(<<"M", "i", "a", "m", "i">>)>> >>

\* fields no parser reads, one of them an unknown label
ProfileDemographic ==
    << <<"url", None>>,
       <<"category", PyStr(<<"m", "u", "r", "d", "e", "r", "s">>)>>,
       <<"name", PyStr(<<"A">>)>>,
       <<"alias", None>>,
       <<"image_url", PyStr(<<"i", ".", "j", "p", "g">>)>>,
       <<"description", Dict(<<<<"Race", PyStr(<<"W", "h", "i", "t", "e">>)>>, <<"Sex", PyStr(<<"M", "a", "l", "e">>)>>, <<"Eyes", PyStr(<<"B", "l", "u", "e">>)>>, <<"Reward", PyStr(<<"x">>)>>, <<"Age", PyStr(<<"6", "4">>)>>>>)>>,
       <<"remarks", None>>,
       <<"caution", None>>,
       <<"field_office", PyStr(<<"M", "i", "a", "m", "i">>)>> >>

\* a birth place of the table, an NCIC number and the label DOB
ProfileBirthPlace ==
    << <<"url", None>>,
       <<"category", PyStr(<<"m", "u", "r", "d", "e", "r", "s">>)>>,
       <<"name", PyStr(<<"A">>)>>,
       <<"alias", None>>,
       <<"image_url", PyStr(<<"i", ".", "j", "p", "g">>)>>,
       <<"description", Dict(<<<<"Place of Birth", PyStr(<<"G", "e", "r", "m", "a", "n", "y">>)>>, <<"NCIC", PyStr(<<"W", "1", "2", "3">>)>>, <<"DOB", PyStr(<<"1", "9", "6", "1", "-", "0", "4", "-", "1", "3">>)>>>>)>>,
       <<"remarks", None>>,
       <<"caution", None>>,
       <<"field_office", PyStr(<<"M", "i", "a", "m", "i">>)>> >>

\* a Height cell that holds a list of two items, not text
ProfileListCell ==
    << <<"url", None>>,
       <<"category", PyStr(<<"m", "u", "r", "d", "e", "r", "s">>)>>,
       <<"name", PyStr(<<"A">>)>>,
       <<"alias", None>>,
       <<"image_url", PyStr(<<"i", ".", "j", "p", "g">>)>>,
       <<"description", Dict(<<<<"Height", ListValue>>>>)>>,
       <<"remarks", None>>,
       <<"caution", None>>,
       <<"field_office", PyStr(<<"M", "i", "a", "m", "i">>)>> >>

\* what extract_profile_data returns when it failed on a page
ProfileError == << <<"url", None>>, <<"error", PyStr(<<"e">>)>> >>

ScrapedProfiles ==
    {ProfilePlain, ProfileFull, ProfileShortYear, ProfileTwoBirthLabels, ProfilePhysical,
     ProfileDemographic, ProfileBirthPlace}

\* the url of the i-th profile
Url(i) == PyStr(<<"u", DigitChar(i)>>)

WithUrl(profile, i) ==
    [j \in DOMAIN profile |-> IF profile[j][1] = "url" THEN <<"url", Url(i)>> ELSE profile[j]]

MaxRows == 2

RecordSets(profiles) ==
    UNION {{[i \in 1 .. n |-> WithUrl(ps[i], i)] : ps \in [1 .. n -> profiles]} :
              n \in 0 .. MaxRows}

-----------------------------------------------------------------------------
(* create_raw_dataframe *)

Keys(items) == [i \in DOMAIN items |-> items[i][1]]

\* d.get(key): the value, NaN/None when the dict has no such key
Get(items, key) ==
    IF \E i \in DOMAIN items : items[i][1] = key
    THEN items[CHOOSE i \in DOMAIN items : items[i][1] = key][2]
    ELSE None

\* the keys of the dicts in the order they are first seen
RECURSIVE FirstSeen(_, _)
FirstSeen(dicts, seen) ==
    IF dicts = <<>> THEN <<>>
    ELSE LET new == Filter(Keys(Head(dicts)), {Head(dicts)[i][1] : i \in DOMAIN Head(dicts)} \ seen)
         IN  new \o FirstSeen(Tail(dicts), seen \cup {new[i] : i \in DOMAIN new})

\* pd.DataFrame(collected_data)
DataFrame(dicts) ==
    LET columns == FirstSeen(dicts, {})
    IN  Frame(columns,
              [i \in DOMAIN dicts |-> [c \in {columns[j] : j \in DOMAIN columns} |-> Get(dicts[i], c)]])

\* the description column flattened (pd.json_normalize), dropped and replaced
\* by one column per label (pd.concat)
create_raw_dataframe(data) ==
    LET df == DataFrame(data)
        df_description == DataFrame([i \in DOMAIN data |-> df.rows[i]["description"].items])
        kept == DropColumn(df, "description")
    IN  IF Has(df.columns, "description")
        THEN Frame(kept.columns \o df_description.columns,
                   [i \in DOMAIN data |->
                       [c \in ColumnSet(kept) \cup ColumnSet(df_description) |->
                           IF c \in ColumnSet(kept) THEN kept.rows[i][c]
                           ELSE df_description.rows[i][c]]])
        ELSE df

-----------------------------------------------------------------------------
(* main and clean_dataframe, statement by statement *)

\* main is run on what the scraper collected: text and None only, possibly no
\* profile at all, or only failed pages.  clean_dataframe itself takes any
\* frame: an empty one, or one with a cell that is not text.
DirectFrames ==
    {Frame(<<>>, <<>>)}
        \cup {create_raw_dataframe(d) :
                 d \in {r \in RecordSets(ScrapedProfiles \cup {ProfileListCell}) :
                           \E i \in DOMAIN r : r[i] = WithUrl(ProfileListCell, i)}}

Init ==
    /\ text = None
    /\ parsed = NotCalled
    /\ out = NotCalled
    /\ out_is_df = FALSE
    /\ cleaned_df = NotCalled
    /\ first_df = NotCalled
    /\ \/ /\ pc = "main"
          /\ collected_data \in RecordSets(ScrapedProfiles) \cup RecordSets({ProfileError})
          /\ df_raw = NotCalled
       \/ /\ pc = "clean_dataframe"
          /\ collected_data = <<>>
          /\ df_raw \in DirectFrames

\* main, lines 1404-1406: nothing was collected
MainNoData ==
    /\ pc = "main"
    /\ collected_data = <<>>
    /\ pc' = "stopped"
    /\ UNCHANGED <<text, parsed, pipeline_vars>>

\* main, lines 1412-1418
MainCreateRaw ==
    /\ pc = "main"
    /\ collected_data # <<>>
    /\ df_raw' = create_raw_dataframe(collected_data)
    /\ pc' = "clean_dataframe"
    /\ UNCHANGED <<text, parsed, collected_data, out, out_is_df, cleaned_df, first_df>>

\* out = df: the caller's own frame object
SameObject(df) == [frame |-> df, same_object |-> TRUE]

\* df.copy(): a new frame object with the content of df
copy(df) == [frame |-> df, same_object |-> FALSE]

\* out = df.copy()
Copy ==
    /\ pc = "clean_dataframe"
    /\ out' = copy(df_raw).frame
    /\ out_is_df' = copy(df_raw).same_object
    /\ pc' = "process_aliases"
    /\ UNCHANGED <<text, parsed, collected_data, df_raw, cleaned_df, first_df>>

\* out = stage(out), where result is stage(out): the stage changes the frame
\* object it is given (df[c] = ..., df.drop(inplace=True)), which is the
\* caller's frame when out is that object; the exception of a stage leaves
\* clean_dataframe
Stage(result, next) ==
    /\ IF result = Raised
       THEN pc' = "raised" /\ out' = out /\ df_raw' = df_raw
       ELSE /\ pc' = next
            /\ out' = result
            /\ df_raw' = IF out_is_df THEN result ELSE df_raw
    /\ UNCHANGED <<text, parsed, collected_data, out_is_df, cleaned_df, first_df>>

Aliases ==
    /\ pc = "process_aliases"
    /\ Stage(process_aliases(out), "process_dates_and_ages")

DatesAndAges ==
    /\ pc = "process_dates_and_ages"
    /\ Stage(process_dates_and_ages(out), "process_occupations")

Occupations ==
    /\ pc = "process_occupations"
    /\ Stage(process_occupations(out), "process_birth_places")

BirthPlaces ==
    /\ pc = "process_birth_places"
    /\ Stage(process_birth_places(out), "process_languages")

Languages ==
    /\ pc = "process_languages"
    /\ Stage(process_languages(out), "process_hair_color")

HairColor ==
    /\ pc = "process_hair_color"
    /\ Stage(process_hair_color(out), "process_physical_measurements")

PhysicalMeasurements ==
    /\ pc = "process_physical_measurements"
    /\ Stage(process_physical_measurements(out), "process_marks_and_caution")

MarksAndCaution ==
    /\ pc = "process_marks_and_caution"
    /\ Stage(process_marks_and_caution(out), "remove_unused_columns")

RemoveUnused ==
    /\ pc = "remove_unused_columns"
    /\ Stage(remove_unused_columns(out), "rename_and_reorganize_columns")

\* df.rename(...) and df[column_order] build new frame objects
RenameAndReorganize ==
    /\ pc = "rename_and_reorganize_columns"
    /\ LET result == rename_and_reorganize_columns(out)
       IN  IF result = Raised
           THEN pc' = "raised" /\ out' = out /\ out_is_df' = out_is_df
           ELSE pc' = "return" /\ out' = result /\ out_is_df' = FALSE
    /\ UNCHANGED <<text, parsed, collected_data, df_raw, cleaned_df, first_df>>

\* return out
Return ==
    /\ pc = "return"
    /\ cleaned_df' = out
    /\ pc' = "returned"
    /\ UNCHANGED <<text, parsed, collected_data, df_raw, out, out_is_df, first_df>>

\* the caller normalizes the normalized record set a second time
CleanAgain ==
    /\ pc = "returned"
    /\ first_df = NotCalled
    /\ first_df' = cleaned_df
    /\ df_raw' = cleaned_df
    /\ pc' = "clean_dataframe"
    /\ UNCHANGED <<text, parsed, collected_data, out, out_is_df, cleaned_df>>

Next ==
    \/ MainNoData \/ MainCreateRaw \/ Copy
    \/ Aliases \/ DatesAndAges \/ Occupations \/ BirthPlaces \/ Languages \/ HairColor
    \/ PhysicalMeasurements \/ MarksAndCaution \/ RemoveUnused \/ RenameAndReorganize
    \/ Return \/ CleanAgain

Spec == Init /\ [][Next]_vars

-----------------------------------------------------------------------------
(* Properties of clean_dataframe and main *)

\* b has the rows of a: as many, and row i carries the url of row i
SameRows(a, b) ==
    /\ Len(b.rows) = Len(a.rows)
    /\ Has(a.columns, "url") =>
          \A i \in DOMAIN a.rows : b.rows[i]["url"] = a.rows[i]["url"]

\* C1: whatever record set clean_dataframe is given, after every stage and at
\* its return the frame has as many rows as the input, and row i has the url of
\* input row i: no stage drops, merges, duplicates or reorders rows.
C1_RowsAndUrlsPreserved ==
    /\ out # NotCalled => SameRows(df_raw, out)
    /\ pc = "returned" => SameRows(df_raw, cleaned_df)

\* C1, its case: clean_dataframe has returned a frame of two rows made from
\* scraped profiles, one of them without a birth date
C1_TwoRowsReturned ==
    /\ pc = "returned"
    /\ first_df = NotCalled
    /\ Len(df_raw.rows) = 2
    /\ cleaned_df.columns # df_raw.columns
    /\ Has(cleaned_df.columns, "date_of_birth")
    /\ cleaned_df.rows[1]["date_of_birth"] = None
    /\ cleaned_df.rows[2]["date_of_birth"] # None

\* the categories categorize_occupation can give
FixedCategorySet ==
    {OCCUPATION_KEYWORDS[i].category : i \in DOMAIN OCCUPATION_KEYWORDS} \cup {"Other", "Unknown"}

\* the record has the column, and a value of the kind in it
HasInt(df, i, c) ==
    Has(df.columns, c) /\ df.rows[i][c].k = "int" /\ df.rows[i][c].v >= 0

HasBool(df, i, c) == Has(df.columns, c) /\ df.rows[i][c].k = "bool"

HasCategory(df, i, c) ==
    Has(df.columns, c) /\ df.rows[i][c].k = "label" /\ df.rows[i][c].v \in FixedCategorySet

\* C2: after clean_dataframe every record of a raw record set has an
\* alias_count that is an integer >= 0, a has_mark and a has_caution that are
\* true or false, and an occupation_category of the fixed set; none is absent.
C2_DerivedFieldsTotal ==
    (pc = "returned" /\ first_df = NotCalled) =>
        \A i \in DOMAIN cleaned_df.rows :
            /\ HasInt(cleaned_df, i, "alias_count")
            /\ HasBool(cleaned_df, i, "has_mark")
            /\ HasBool(cleaned_df, i, "has_caution")
            /\ HasCategory(cleaned_df, i, "occupation_category")

\* C3: no exception leaves a stage of clean_dataframe: a parser that raises on
\* one cell is caught and the run goes on to the next stage.
C3_NoExceptionLeavesAStage == pc # "raised"

\* C4: an empty input record set is a hard failure: main does not stop
\* silently without a result, and clean_dataframe does not return an empty
\* normalized record set.
C4_EmptyInputIsAHardFailure ==
    /\ pc # "stopped"
    /\ pc = "returned" => cleaned_df.rows # <<>>

\* C5: clean_dataframe is idempotent: applied to its own result it returns the
\* same columns, in the same order, with the same cells.
C5_Idempotent ==
    (pc = "returned" /\ first_df # NotCalled) => cleaned_df = first_df

-----------------------------------------------------------------------------
(* Properties of parse_height_to_cm *)

\* C6: parse_height_to_cm gives absence or a height between 0 and 300 cm.
C6_HeightInRange ==
    pc = "return" =>
        \/ parsed = None
        \/ parsed.k = "float" /\ 0 <= parsed.v /\ parsed.v <= 30000

\* C9: the result of parse_height_to_cm, whichever rule gave it, is rounded to
\* one decimal; "180 cm" and "1.8 m" give 180.0, "5'11" and "71 inches" give
\* 180.3, and a bare "70" gives 177.8.
C9_FirstRuleRoundedToOneDecimal ==
    pc = "return" =>
        /\ parsed.k = "float" => parsed.v % 10 = 0
        /\ text = Text(<<T_180, T_sp, T_cm>>) => parsed = PyFloat(18000)
        /\ text = Text(<<T_1_8, T_sp, T_m>>) => parsed = PyFloat(18000)
        /\ text = Text(<<T_5, T_quote, T_11>>) => parsed = PyFloat(18030)
        /\ text = Text(<<T_71, T_sp, T_inches>>) => parsed = PyFloat(18030)
        /\ text = Text(<<T_70>>) => parsed = PyFloat(17780)

-----------------------------------------------------------------------------
(* Properties of parse_date *)

\* the year a two-digit year stands for: above 25 the 1900s, else the 2000s
CenturyRule(yy) == IF yy > 25 THEN 1900 + yy ELSE 2000 + yy

\* C7: a slashed date M/D/YY, alone or inside a longer text, is read with the
\* year 1900+YY when YY > 25 and 2000+YY otherwise.
C7_TwoDigitYearRule ==
    pc = "return" =>
        \A front \in SlashedFronts, md \in SlashedDays, yy \in 0 .. 99 :
            text = ShortYearText(front, md, yy) =>
                parsed = PyDate(CenturyRule(yy), md.m, md.d)

\* the supported layouts with a four-digit year: month name first, numeric,
\* ISO, day first
Layouts ==
    <<DateFormats[1], DateFormats[2], DateFormats[3], DateFormats[5], DateFormats[6],
      DateFormats[7]>>

\* where layout i is first found in the text
FoundAt(s, i) == Search(Layouts[i].re, Lower(s))

\* the date written earliest in the text, in whichever layout
EarliestDate(s) ==
    LET hits == {i \in DOMAIN Layouts : FoundAt(s, i).ok}
        first == CHOOSE i \in hits :
                     \A j \in hits :
                         \/ FoundAt(s, i).start < FoundAt(s, j).start
                         \/ FoundAt(s, i).start = FoundAt(s, j).start /\ i <= j
        m == FoundAt(s, first)
    IN  IF hits = {} THEN None
        ELSE PyDate(ToInt(m.caps[1]), StrptimeMonth(Layouts[first].month, m.caps[2]),
                    ToInt(Strip(m.caps[3])))

\* C8: of a text made of dates in the supported layouts and of other words,
\* parse_date gives the date that is written first, and absence only when the
\* text holds no date.
C8_FirstDateOfTheText ==
    (pc = "return" /\ text \in DateTexts) => parsed = EarliestDate(text.v)

-----------------------------------------------------------------------------
(* Properties of parse_weight_to_kg *)

\* the last place of the run of digits that holds place i
RECURSIVE DigitsEnd(_, _)
DigitsEnd(s, i) == IF i < Len(s) /\ s[i + 1] \in Digits THEN DigitsEnd(s, i + 1) ELSE i

\* the last place of the number that starts at i: digits, then a point and
\* digits when they follow
NumberEnd(s, i) ==
    LET e == DigitsEnd(s, i)
    IN  IF e + 2 <= Len(s) /\ s[e + 1] = "." /\ s[e + 2] \in Digits
        THEN DigitsEnd(s, e + 2) ELSE e

\* the numbers of a text from place i on, left to right
RECURSIVE NumbersFrom(_, _)
NumbersFrom(s, i) ==
    IF i > Len(s) THEN <<>>
    ELSE IF s[i] \in Digits
         THEN <<[first |-> i, last |-> NumberEnd(s, i)]>> \o NumbersFrom(s, NumberEnd(s, i) + 1)
         ELSE NumbersFrom(s, i + 1)

RECURSIVE SkipBlanks(_, _)
SkipBlanks(s, i) == IF i <= Len(s) /\ s[i] \in SpaceChars THEN SkipBlanks(s, i + 1) ELSE i

\* the number is kilogram-suffixed: blanks or nothing, then the word kg
IsKilograms(s, n) ==
    LET j == SkipBlanks(s, n.last + 1)
    IN  /\ j + 1 <= Len(s)
        /\ s[j] = "k"
        /\ s[j + 1] = "g"
        /\ (j + 2 > Len(s) \/ s[j + 2] \notin WordChars)

\* the weight the rule gives: the mean of the kilogram-suffixed numbers when
\* there is one; else the one number, or the midpoint of the smallest and the
\* largest of two or more, as pounds; one decimal; absence without a number
WeightByTheRule(x) ==
    IF x = None \/ Strip(x.v) = <<>> THEN None
    ELSE LET s == Lower(x.v)
             numbers == NumbersFrom(s, 1)
             Kilo(n) == IsKilograms(s, n)
             Value(ns) == [i \in DOMAIN ns |-> Hundredths(SubSeq(s, ns[i].first, ns[i].last))]
             kilograms == Value(SelectSeq(numbers, Kilo))
             all == Value(numbers)
         IN  IF kilograms # <<>>
             THEN PyFloat(Round1(Sum(kilograms), 100 * Len(kilograms)))
             ELSE IF Len(all) >= 2 THEN PyFloat(PoundsToKg(Min(all) + Max(all)))
             ELSE IF Len(all) = 1 THEN PyFloat(PoundsToKg(2 * all[1]))
             ELSE None

-----------------------------------------------------------------------------
(* count_aliases on its own *)

MaxAliasTokens == 5

AliasTokens ==
    {<<"A">>, <<"-">>, <<"N", "/", "A">>, <<" ", "a", "k", "a", " ">>, <<" ", "a", "/", "k", "/", "a", " ">>, <<",">>, <<"\n">>, <<" ">>}

AliasExamples ==
    {<<"J", "o", "h", "n", " ", "D", "o", "e", " ", "a", "/", "k", "/", "a", " ", "J", "o", "h", "n", "n", "y", ",", " ", "J", "D">>, <<"N", "o", "n", "e">>, <<"A", "|", "J", "D", ";", "n", "/", "a">>, <<"A", " ", "A", "K", "A", " ", "J", "D">>}

AliasInputs ==
    {None} \cup {PyStr(cs) : cs \in AliasExamples}
           \cup {Text(ts) : ts \in UNION {[1 .. n -> AliasTokens] : n \in 0 .. MaxAliasTokens}}

InitAliases == text \in AliasInputs /\ parsed = NotCalled /\ pc = "call" /\ NoPipeline

CallCountAliases ==
    /\ pc = "call"
    /\ parsed' = count_aliases(text)
    /\ pc' = "return"
    /\ UNCHANGED <<text, pipeline_vars>>

SpecAliases == InitAliases /\ [][CallCountAliases]_vars

\* the tokens of a text that are neither blank nor a placeholder
RECURSIVE NamesIn(_)
NamesIn(parts) ==
    IF parts = <<>> THEN 0
    ELSE (IF Strip(Head(parts)) \notin {<<>>, <<"-">>, <<"N", "o", "n", "e">>, <<"N", "/", "A">>} THEN 1 ELSE 0)
         + NamesIn(Tail(parts))

\* C11: count_aliases returns 0 for an absent or blank text and otherwise the
\* number of tokens between the separators (a/k/a or aka, pipe, comma,
\* semicolon, newline) that are neither blank nor "-", "None" or "N/A"; the
\* result is an integer that is never negative.
C11_CountsTheNames ==
    pc = "return" =>
        /\ parsed.k = "int" /\ parsed.v >= 0
        /\ IsBlank(text) => parsed.v = 0
        /\ ~IsBlank(text) =>
               parsed.v = NamesIn(Split(RE_alias_sep,
                                        Replace(Strip(text.v), <<"a", "/", "k", "/", "a">>, <<"a", "k", "a">>), TRUE))

\* a blank token between two newlines is counted as a name
C11_BlankTokenCounted ==
    /\ pc = "return"
    /\ text = PyStr(<<"A", "\n", " ", "\n", "A">>)
    /\ parsed = PyInt(3)


-----------------------------------------------------------------------------
(* categorize_occupation on its own *)

MaxOccupationWords == 3

OccupationWords ==
    {<<"I", "n", "t", "e", "l", "l", "i", "g", "e", "n", "c", "e">>, <<"s", "o", "f", "t", "w", "a", "r", "e">>, <<"T", "r", "a", "c", "t", "o", "r">>, <<"D", "R", "I", "V", "E", "R">>, <<"x">>, <<"n", "o", "n", "e">>}

OccupationInputs ==
    {None, PyStr(<<>>), PyStr(<<" ", " ">>)}
        \cup {PyStr(Join(ws)) : ws \in UNION {[1 .. n -> OccupationWords] : n \in 1 .. MaxOccupationWords}}

InitOccupation == text \in OccupationInputs /\ parsed = NotCalled /\ pc = "call" /\ NoPipeline

CallCategorizeOccupation ==
    /\ pc = "call"
    /\ parsed' = categorize_occupation(text)
    /\ pc' = "return"
    /\ UNCHANGED <<text, pipeline_vars>>

SpecOccupation == InitOccupation /\ [][CallCategorizeOccupation]_vars

\* the entries of the table one of whose keywords occurs in the text, whatever the case
EntriesIn(cs) ==
    {k \in DOMAIN OCCUPATION_KEYWORDS :
        \E j \in DOMAIN OCCUPATION_KEYWORDS[k].keywords :
            Contains(Lower(cs), Lower(OCCUPATION_KEYWORDS[k].keywords[j]))}

\* C12: categorize_occupation returns "Unknown" for an absent or blank text,
\* "Other" when no keyword of any category occurs in the text, and otherwise
\* the earliest category of the table, in table order, one of whose keywords is
\* a case-insensitive substring of the text.
C12_EarliestCategory ==
    pc = "return" =>
        IF IsBlank(text) THEN parsed = PyLabel("Unknown")
        ELSE IF EntriesIn(text.v) = {} THEN parsed = PyLabel("Other")
        ELSE \E k \in EntriesIn(text.v) :
                /\ \A h \in EntriesIn(text.v) : k <= h
                /\ parsed = PyLabel(OCCUPATION_KEYWORDS[k].category)

\* a text with an IT/Technology keyword before a Military/Intelligence one
C12_MilitaryBeforeTechnology ==
    /\ pc = "return"
    /\ text = PyStr(<<"s", "o", "f", "t", "w", "a", "r", "e", " ", "I", "n", "t", "e", "l", "l", "i", "g", "e", "n", "c", "e">>)
    /\ parsed = PyLabel("Military/Intelligence")


-----------------------------------------------------------------------------
(* extract_country_from_birth_place on its own *)

MaxPlaceTokens == 3

PlaceTokens ==
    {<<"G", "e", "r", "m", "a", "n", "y">>, <<"g", "e", "r", "m", "a", "n", "y">>, <<"B", "e", "r", "l", "i", "n", ",", " ">>, <<"L", "o", "s", " ", "A", "n", "g", "e", "l", "e", "s", ",", " ">>, <<"C", "a", "l", "i", "f", "o", "r", "n", "i", "a">>, <<"U", "n", "k", "n", "o", "w", "n">>, <<"F", "o", "o">>, <<" ">>}

PlaceInputs ==
    {None} \cup {Text(ts) : ts \in UNION {[1 .. n -> PlaceTokens] : n \in 0 .. MaxPlaceTokens}}

InitBirthPlace == text \in PlaceInputs /\ parsed = NotCalled /\ pc = "call" /\ NoPipeline

CallExtractCountry ==
    /\ pc = "call"
    /\ parsed' = extract_country_from_birth_place(text)
    /\ pc' = "return"
    /\ UNCHANGED <<text, pipeline_vars>>

SpecBirthPlace == InitBirthPlace /\ [][CallExtractCountry]_vars

IsPlaceKey(cs) == \E i \in DOMAIN BIRTH_PLACE_MAPPING : BIRTH_PLACE_MAPPING[i].place = cs

\* the result is the pair the table holds for the key cs, or (cs, None) for a non-key
LooksUp(cs, result) ==
    IF IsPlaceKey(cs)
    THEN \E i \in DOMAIN BIRTH_PLACE_MAPPING :
            BIRTH_PLACE_MAPPING[i].place = cs /\ result = BIRTH_PLACE_MAPPING[i].value
    ELSE result = <<PyStr(cs), None>>

-----------------------------------------------------------------------------
(* detect_scars_marks on its own *)

MaxMarkTokens == 3

MarkTokens ==
    {<<"t", "a", "t", "t", "o", "o">>, <<"i", "n", "k">>, <<"p">>, <<"s", "c", "a", "r">>, <<"f">>, <<"s">>, <<" ">>, <<"m", "o", "l", "e">>, <<"x">>}

MarkInputs ==
    {None} \cup {Text(ts) : ts \in UNION {[1 .. n -> MarkTokens] : n \in 0 .. MaxMarkTokens}}

InitMarks == text \in MarkInputs /\ parsed = NotCalled /\ pc = "call" /\ NoPipeline

CallDetectScarsMarks ==
    /\ pc = "call"
    /\ parsed' = detect_scars_marks(text)
    /\ pc' = "return"
    /\ UNCHANGED <<text, pipeline_vars>>

SpecMarks == InitMarks /\ [][CallDetectScarsMarks]_vars

\* the text holds "tattoo", or one of the other mark keywords as a word
NamesAMark(cs) ==
    \/ Contains(cs, <<"t", "a", "t", "t", "o", "o">>)
    \/ Search(Cat(<<WordBoundary, Word(<<"i", "n", "k">>), WordBoundary>>), cs).ok
    \/ \E i \in 2 .. Len(scar_keywords) : Search(scar_keywords[i], cs).ok

\* C14: detect_scars_marks returns true for every text containing "tattoo",
\* false for an absent or blank text, and false for every text that holds none
\* of the mark keywords as a word: a word that merely ends in or embeds the
\* letters of a keyword does not count.
C14_MarkKeywordsAsWords ==
    pc = "return" =>
        /\ (text.k = "str" /\ Contains(Lower(text.v), <<"t", "a", "t", "t", "o", "o">>)) => parsed = PyBool(TRUE)
        /\ IsBlank(text) => parsed = PyBool(FALSE)
        /\ (text.k = "str" /\ ~NamesAMark(Lower(text.v))) => parsed = PyBool(FALSE)

\* "pink" ends in the letters of "ink" and is reported as a mark
C14_PinkIsAMark ==
    /\ pc = "return"
    /\ text = PyStr(<<"p", "i", "n", "k">>)
    /\ parsed = PyBool(TRUE)


\* the place of column c in the list cols
PositionIn(cols, c) == CHOOSE i \in DOMAIN cols : cols[i] = c

Thematic == {column_order[i] : i \in DOMAIN column_order}

\* the columns after of the finished frame, against the columns before of the
\* renamed frame and the columns given of the input of clean_dataframe
OrderedByTheme(given, before, after) ==
    /\ \A i, j \in DOMAIN after :
          i < j =>
             /\ after[i] # after[j]
             /\ after[j] \in Thematic => after[i] \in Thematic
             /\ (after[i] \in Thematic /\ after[j] \in Thematic) =>
                   PositionIn(column_order, after[i]) < PositionIn(column_order, after[j])
             /\ (after[i] \notin Thematic /\ after[j] \notin Thematic) =>
                   /\ Has(given, after[i]) /\ Has(given, after[j])
                   /\ PositionIn(given, after[i]) < PositionIn(given, after[j])
    /\ {after[i] : i \in DOMAIN after} = {before[i] : i \in DOMAIN before}

\* C15: in the output of clean_dataframe the columns of the fixed thematic
\* sequence come first, in the relative order of that sequence; every other
\* column follows, in the order in which it first appeared in the input; no
\* column is listed twice and none is lost by the reordering.
C15_ThematicColumnsFirst ==
    [][(pc = "rename_and_reorganize_columns" /\ pc' = "return") =>
           OrderedByTheme(df_raw.columns, Rename(out).columns, out'.columns)]_vars

\* a finished frame with optional fields of the sequence and two other columns
C15_TwoOtherColumnsLast ==
    /\ pc = "return"
    /\ Len(out.rows) = 2
    /\ \E n \in DOMAIN out.columns :
          /\ n + 2 = Len(out.columns)
          /\ \A i \in 1 .. n : out.columns[i] \in Thematic
          /\ \A i \in n + 1 .. n + 2 : out.columns[i] \notin Thematic
          /\ {"eye_color", "ncic_number"} \subseteq {out.columns[i] : i \in 1 .. n}


\* the source columns a transform reads
TransformSources ==
    {dob_labels[i] : i \in DOMAIN dob_labels}
        \cup {"alias", "Occupation", "Place of Birth", "Languages", "Hair", "Height", "Weight",
              "Scars and Marks", "caution"}

\* C16: every column of the raw input that no transform reads (Race, Build,
\* Citizenship, Complexion, Age, Eyes, Sex, Nationality, NCIC, field_office, an
\* unknown label, ...) is in the output of clean_dataframe, possibly under its
\* renamed name, with every cell unchanged; only columns a transform consumed
\* are removed.
C16_UnreadColumnsPassThrough ==
    (pc = "returned" /\ first_df = NotCalled) =>
        \A c \in ColumnSet(df_raw) \ TransformSources :
            /\ Has(cleaned_df.columns, Renamed(c))
            /\ \A i \in DOMAIN df_raw.rows : cleaned_df.rows[i][Renamed(c)] = df_raw.rows[i][c]

\* a record with a Race and an Age is returned without them
C16_RaceAndAgeRemoved ==
    /\ pc = "returned" /\ first_df = NotCalled
    /\ {"Race", "Age"} \subseteq ColumnSet(df_raw)
    /\ ColumnSet(cleaned_df) \cap {"Race", "Age", "race", "age"} = {}
    /\ {"sex", "eye_color", "Reward"} \subseteq ColumnSet(cleaned_df)


\* the points of clean_dataframe up to the call of remove_unused_columns
BeforePruning ==
    {"process_aliases", "process_dates_and_ages", "process_occupations", "process_birth_places",
     "process_languages", "process_hair_color", "process_physical_measurements",
     "process_marks_and_caution", "remove_unused_columns"}

\* C17: at every point of the pipeline before remove_unused_columns every raw
\* source column still holds, for every record, the raw text it came with: a
\* derivation stage only adds columns and overwrites no raw column in place.
C17_RawColumnsKeptUntilPruning ==
    (pc \in BeforePruning /\ first_df = NotCalled) =>
        \A c \in ColumnSet(df_raw) :
            /\ Has(out.columns, c)
            /\ \A i \in DOMAIN df_raw.rows : out.rows[i][c] = df_raw.rows[i][c]

\* after process_dates_and_ages the birth date column holds a date, not its text
C17_BirthTextOverwritten ==
    /\ pc = "process_occupations" /\ first_df = NotCalled
    /\ \E c \in ColumnSet(df_raw), i \in DOMAIN df_raw.rows :
          df_raw.rows[i][c].k = "str" /\ out.rows[i][c].k = "date"


-----------------------------------------------------------------------------
(* clean_dataframe with its eight derivation stages in any order *)

DerivationStages ==
    {"process_aliases", "process_dates_and_ages", "process_occupations", "process_birth_places",
     "process_languages", "process_hair_color", "process_physical_measurements",
     "process_marks_and_caution"}

StageResult(stage, df) ==
    CASE stage = "process_aliases" -> process_aliases(df)
      [] stage = "process_dates_and_ages" -> process_dates_and_ages(df)
      [] stage = "process_occupations" -> process_occupations(df)
      [] stage = "process_birth_places" -> process_birth_places(df)
      [] stage = "process_languages" -> process_languages(df)
      [] stage = "process_hair_color" -> process_hair_color(df)
      [] stage = "process_physical_measurements" -> process_physical_measurements(df)
      [] stage = "process_marks_and_caution" -> process_marks_and_caution(df)
      [] stage = "remove_unused_columns" -> remove_unused_columns(df)
      [] stage = "rename_and_reorganize_columns" -> rename_and_reorganize_columns(df)

\* the ten stages in the order of the code
StageOrder ==
    <<"process_aliases", "process_dates_and_ages", "process_occupations", "process_birth_places",
      "process_languages", "process_hair_color", "process_physical_measurements",
      "process_marks_and_caution", "remove_unused_columns", "rename_and_reorganize_columns">>

RECURSIVE RunFrom(_, _)
RunFrom(df, i) ==
    IF df = Raised \/ i > Len(StageOrder) THEN df
    ELSE RunFrom(StageResult(StageOrder[i], df), i + 1)

\* what clean_dataframe(df) returns, or Raised
clean_dataframe(df) == RunFrom(df, 1)

\* the position of a run whose derivation stages are called in any order: the
\* stages that have run so far
At(where, done) == [at |-> where, done |-> done]

MaxAnyOrderRows == 1

\* profiles that between them feed every derivation stage, and one that makes a stage fail
AnyOrderProfiles ==
    {ProfilePlain, ProfileFull, ProfileTwoBirthLabels, ProfilePhysical, ProfileBirthPlace,
     ProfileListCell}

\* the empty frame and the raw frames of 1..MaxAnyOrderRows records, scraped or
\* with a cell that is not text
AnyOrderFrames ==
    {Frame(<<>>, <<>>)}
        \cup {create_raw_dataframe([i \in DOMAIN ps |-> WithUrl(ps[i], i)]) :
                 ps \in UNION {[1 .. n -> AnyOrderProfiles] :
                                  n \in 1 .. MaxAnyOrderRows}}

\* out = df.copy() has run
InitAnyOrder ==
    /\ text = None
    /\ parsed = NotCalled
    /\ collected_data = <<>>
    /\ cleaned_df = NotCalled
    /\ first_df = NotCalled
    /\ df_raw \in AnyOrderFrames
    /\ out = df_raw
    /\ out_is_df = FALSE
    /\ pc = At("derive", {})

StepAnyOrder(result, next) ==
    /\ IF result = Raised
       THEN pc' = At("raised", pc.done) /\ out' = out
       ELSE pc' = next /\ out' = result
    /\ UNCHANGED <<text, parsed, collected_data, df_raw, out_is_df, cleaned_df, first_df>>

\* one of the derivation stages that has not run yet
Derive(stage) ==
    /\ pc.at = "derive"
    /\ stage \notin pc.done
    /\ StepAnyOrder(StageResult(stage, out), At("derive", pc.done \cup {stage}))

Prune ==
    /\ pc = At("derive", DerivationStages)
    /\ StepAnyOrder(remove_unused_columns(out), At("finalize", DerivationStages))

Finalize ==
    /\ pc.at = "finalize"
    /\ StepAnyOrder(rename_and_reorganize_columns(out), At("return", DerivationStages))

ReturnAnyOrder ==
    /\ pc.at = "return"
    /\ cleaned_df' = out
    /\ pc' = At("returned", pc.done)
    /\ UNCHANGED <<text, parsed, collected_data, df_raw, out, out_is_df, first_df>>

NextAnyOrder ==
    \/ \E stage \in DerivationStages : Derive(stage)
    \/ Prune \/ Finalize \/ ReturnAnyOrder

SpecAnyOrder == InitAnyOrder /\ [][NextAnyOrder]_vars

\* C18: the eight derivation stages have no ordering dependency: run in any
\* permutation before remove_unused_columns and rename_and_reorganize_columns,
\* they give the final record set (columns, column order, values) of the order
\* of the code, and fail where the order of the code fails.
C18_AnyOrderSameResult ==
    /\ pc.at = "returned" => cleaned_df = clean_dataframe(df_raw)
    /\ pc.at = "raised" => clean_dataframe(df_raw) = Raised

\* a record with a birth date, an occupation and marks, returned after the
\* stages ran in some order
C18_FullProfileReturned ==
    /\ pc.at = "returned"
    /\ {"age_years", "occupation_category", "has_mark", "alias_count", "has_caution"}
           \subseteq ColumnSet(cleaned_df)

\* the pipeline of the code returns what clean_dataframe(df) denotes
SequentialRunIsCleanDataframe ==
    (pc = "returned" /\ first_df = NotCalled) => cleaned_df = clean_dataframe(df_raw)


\* the columns the derivation stages write, under their final names
DerivedFields ==
    {"alias_count", "age_years", "zodiac_sign", "occupation_category", "birth_country",
     "birth_country_code", "language_primary", "language_secondary", "language_tertiary",
     "hair_color", "height_cm", "weight_kg", "has_mark", "has_caution"}

\* the value of field c of record i of a frame; no column is no value
FieldOf(df, i, c) == IF Has(df.columns, c) THEN df.rows[i][c] ELSE None

\* C19: the derived fields of a record depend only on that record's own raw
\* fields: clean_dataframe gives it in a record set the values, and the absence
\* of a value, that it gives it in the record set made of that record alone,
\* whatever fields the other records carry or lack.
C19_RecordsAreIndependent ==
    (pc = "returned" /\ first_df = NotCalled) =>
        \A i \in DOMAIN collected_data :
            \A c \in DerivedFields :
                FieldOf(cleaned_df, i, c)
                    = FieldOf(clean_dataframe(create_raw_dataframe(<<collected_data[i]>>)), 1, c)

\* a record with the label 'Date of Birth' gets an age alone and none next to
\* a record with the label 'Date(s) of Birth Used'
C19_AgeLostNextToAnotherLabel ==
    /\ pc = "returned" /\ first_df = NotCalled
    /\ \E i \in DOMAIN collected_data :
          /\ FieldOf(cleaned_df, i, "age_years") = None
          /\ FieldOf(clean_dataframe(create_raw_dataframe(<<collected_data[i]>>)), 1, "age_years")
                 = PyInt(64)


\* C20: clean_dataframe leaves the record set it is given unchanged: from its
\* call to its return (or its exception) the caller's frame keeps its columns,
\* their order and every raw cell value.
C20_InputLeftUnchanged ==
    [][pc \notin {"main", "returned"} => df_raw' = df_raw]_vars

\* a raw frame with a birth date and a caution text was cleaned into another
\* frame and is still what create_raw_dataframe built
C20_RawFrameAfterTheCall ==
    /\ pc = "returned" /\ first_df = NotCalled
    /\ collected_data # <<>>
    /\ df_raw = create_raw_dataframe(collected_data)
    /\ {"Date(s) of Birth Used", "caution", "image_url"} \subseteq ColumnSet(df_raw)
    /\ {"age_years", "has_caution"} \subseteq ColumnSet(cleaned_df)
    /\ ~Has(cleaned_df.columns, "caution")


-----------------------------------------------------------------------------
(* compute_age on its own *)

\* birth dates and reference dates around one another, a leap day among them
AgeYears == {1961, 2024, 2025, 2026}
AgeMonths == {2, 10, 11}
AgeDays == {20, 21, 22, 29}

AgeDates ==
    {PyDate(y, m, d) : y \in AgeYears, m \in AgeMonths, d \in AgeDays} \cap
        {dt \in [k : {"date"}, y : AgeYears, m : AgeMonths, d : AgeDays] : ValidDate(dt.y, dt.m, dt.d)}

\* the arguments (birth_date, ref_date); TODAY is the default of ref_date
AgeInputs == ({None} \cup AgeDates) \X ({TODAY} \cup AgeDates)

InitAge == text \in AgeInputs /\ parsed = NotCalled /\ pc = "call" /\ NoPipeline

CallComputeAge ==
    /\ pc = "call"
    /\ parsed' = compute_age(text[1], text[2])
    /\ pc' = "return"
    /\ UNCHANGED <<text, pipeline_vars>>

SpecAge == InitAge /\ [][CallComputeAge]_vars

\* the place of a date in its year, and of a date among all dates
InYear(dt) == dt.m * 100 + dt.d
InTime(dt) == dt.y * 10000 + InYear(dt)

\* C21: compute_age(birth, ref) is ref.year - birth.year, less one when
\* (ref.month, ref.day) precedes (birth.month, birth.day); it is absent when
\* the birth date is absent or that number is negative; so an age is never
\* negative and a birth date after the reference date has no age.
C21_AgeInWholeYears ==
    pc = "return" =>
        LET birth == text[1]
            ref == text[2]
        IN  /\ birth = None => parsed = None
            /\ birth # None =>
                  LET n == (ref.y - birth.y) - (IF InYear(ref) < InYear(birth) THEN 1 ELSE 0)
                  IN  /\ parsed = IF n < 0 THEN None ELSE PyInt(n)
                      /\ InTime(birth) > InTime(ref) => parsed = None
            /\ parsed # None => parsed.k = "int" /\ parsed.v >= 0

\* the day before the 64th birthday
C21_DayBeforeTheBirthday ==
    /\ pc = "return"
    /\ text = <<PyDate(1961, 10, 22), TODAY>>
    /\ parsed = PyInt(63)


-----------------------------------------------------------------------------
(* zodiac_sign on its own *)

\* a leap year and a common year
ZodiacYears == {1961, 2000}

ZodiacInputs ==
    {None} \cup {dt \in [k : {"date"}, y : ZodiacYears, m : 1 .. 12, d : 1 .. 31] :
                    ValidDate(dt.y, dt.m, dt.d)}

InitZodiac == text \in ZodiacInputs /\ parsed = NotCalled /\ pc = "call" /\ NoPipeline

CallZodiacSign ==
    /\ pc = "call"
    /\ parsed' = zodiac_sign(text)
    /\ pc' = "return"
    /\ UNCHANGED <<text, pipeline_vars>>

SpecZodiac == InitZodiac /\ [][CallZodiacSign]_vars

\* the twelve signs with their first and last day, as month * 100 + day
SignTable ==
    { <<"Aquarius", 120, 218>>, <<"Pisces", 219, 320>>, <<"Aries", 321, 419>>,
      <<"Taurus", 420, 520>>, <<"Gemini", 521, 620>>, <<"Cancer", 621, 722>>,
      <<"Leo", 723, 822>>, <<"Virgo", 823, 922>>, <<"Libra", 923, 1022>>,
      <<"Scorpio", 1023, 1121>>, <<"Sagittarius", 1122, 1221>>, <<"Capricorn", 1222, 119>> }

\* the signs whose days hold the date; Capricorn runs over the end of the year
SignsOf(dt) ==
    {e[1] : e \in {e \in SignTable :
                      IF e[2] <= e[3] THEN e[2] <= InYear(dt) /\ InYear(dt) <= e[3]
                      ELSE e[2] <= InYear(dt) \/ InYear(dt) <= e[3]}}

\* C22: zodiac_sign gives every calendar day of a present birth date exactly
\* one of the twelve signs, the one of the fixed table (Aquarius Jan 20-Feb 18,
\* ..., Capricorn Dec 22-Jan 19), and is absent exactly when the birth date is
\* absent.
C22_SignOfTheTable ==
    pc = "return" =>
        /\ parsed = None <=> text = None
        /\ text # None => SignsOf(text) = {parsed.v}

\* the last day of Aquarius
C22_LastDayOfAquarius ==
    /\ pc = "return"
    /\ text = PyDate(2000, 2, 18)
    /\ parsed = PyLabel("Aquarius")


-----------------------------------------------------------------------------
(* extract_first_hair_color on its own *)

MaxHairTokens == 3

HairTokens ==
    {<<"B", "r", "o", "w", "n">>, <<"B", "l", "a", "c", "k">>, <<"/">>, <<"(">>, <<")">>, <<" ", "a", "n", "d", " ">>, <<"A", "N", "D">>, <<" ">>}

HairInputs ==
    {None} \cup {Text(ts) : ts \in UNION {[1 .. n -> HairTokens] : n \in 0 .. MaxHairTokens}}

InitHair == text \in HairInputs /\ parsed = NotCalled /\ pc = "call" /\ NoPipeline

CallExtractFirstHairColor ==
    /\ pc = "call"
    /\ parsed' = extract_first_hair_color(text)
    /\ pc' = "return"
    /\ UNCHANGED <<text, pipeline_vars>>

SpecHair == InitHair /\ [][CallExtractFirstHairColor]_vars

\* C23: extract_first_hair_color splits the text on slash, parenthesis or the
\* word "and" and returns the first non-empty segment, trimmed; it is absent
\* only for an absent or blank text or when every segment is empty, so a text
\* that begins with a separator still gives its first segment with content.
C23_FirstSegmentWithContent ==
    pc = "return" =>
        IF IsBlank(text) THEN parsed = None
        ELSE LET segments == StripNonEmpty(Split(RE_hair_sep, Strip(text.v), TRUE))
             IN  parsed = IF segments = <<>> THEN None ELSE PyStr(segments[1])

\* a text that begins with a separator has no colour
C23_LeadingSeparatorGivesNothing ==
    /\ pc = "return"
    /\ text = PyStr(<<"/", "B", "r", "o", "w", "n">>)
    /\ parsed = None


\* the recognized birth-date labels under which record i of df carries a text
BirthLabelsOf(df, i) ==
    {n \in DOMAIN dob_labels : Has(df.columns, dob_labels[n]) /\ df.rows[i][dob_labels[n]].k = "str"}

\* the birth-date text of record i: the one under its first recognized label
BirthTextOf(df, i) ==
    df.rows[i][dob_labels[CHOOSE n \in BirthLabelsOf(df, i) : \A k \in BirthLabelsOf(df, i) : n <= k]]

\* C24: whenever the input carries a birth-date text under one of the labels
\* 'Date(s) of Birth Used', 'Date of Birth', 'DOB', the output of
\* clean_dataframe has a date_of_birth column with the parsed date of that
\* text, age_years and zodiac_sign are computed from it, and no recognized
\* birth-date column is left in the output as raw text.
C24_BirthDateUnderAnyLabel ==
    (pc = "returned" /\ first_df = NotCalled) =>
        /\ \A i \in DOMAIN df_raw.rows :
              BirthLabelsOf(df_raw, i) # {} =>
                 /\ Has(cleaned_df.columns, "date_of_birth")
                 /\ cleaned_df.rows[i]["date_of_birth"] = parse_date(BirthTextOf(df_raw, i))
                 /\ FieldOf(cleaned_df, i, "age_years")
                        = compute_age(parse_date(BirthTextOf(df_raw, i)), TODAY)
                 /\ FieldOf(cleaned_df, i, "zodiac_sign")
                        = zodiac_sign(parse_date(BirthTextOf(df_raw, i)))
        /\ \A i \in DOMAIN cleaned_df.rows : BirthLabelsOf(cleaned_df, i) = {}

\* a birth date under the label DOB is parsed and stays in the column DOB
C24_ParsedUnderTheLabelDOB ==
    /\ pc = "returned" /\ first_df = NotCalled
    /\ Len(cleaned_df.rows) = 1
    /\ Has(cleaned_df.columns, "DOB") /\ ~Has(cleaned_df.columns, "date_of_birth")
    /\ cleaned_df.rows[1]["DOB"] = PyDate(1961, 4, 13)
    /\ cleaned_df.rows[1]["age_years"] = PyInt(64)


\* C25: in every record of every output of clean_dataframe the derived fields
\* agree: zodiac_sign is present exactly when date_of_birth is, age_years is
\* present only when date_of_birth is and is then the age of that date on
\* 2025-10-21, and birth_country_code is present only when birth_country is.
C25_DerivedFieldsAgree ==
    pc = "returned" =>
        \A i \in DOMAIN cleaned_df.rows :
            LET field(c) == FieldOf(cleaned_df, i, c)
            IN  /\ field("zodiac_sign") # None <=> field("date_of_birth") # None
                /\ field("age_years") # None =>
                      /\ field("date_of_birth") # None
                      /\ field("age_years") = compute_age(field("date_of_birth"), PyDate(2025, 10, 21))
                /\ field("birth_country_code") # None => field("birth_country") # None

\* a record with an age and a sign and no date_of_birth
C25_AgeWithoutBirthDate ==
    /\ pc = "returned" /\ first_df = NotCalled
    /\ \E i \in DOMAIN cleaned_df.rows :
          /\ FieldOf(cleaned_df, i, "age_years") = PyInt(64)
          /\ FieldOf(cleaned_df, i, "zodiac_sign") = PyLabel("Aries")
          /\ FieldOf(cleaned_df, i, "birth_country_code") # None
          /\ FieldOf(cleaned_df, i, "date_of_birth") = None

=============================================================================
